---- MODULE Spec2Model ----
(***************************************************************************)
(* A model of the Zyzzyva word engine (src/src/libzyzzyva/WordEngine.cpp): *)
(* the search orchestrator, the database stage, the post-condition stage   *)
(* with its probability-order window, and the word information cache.     *)
(*                                                                         *)
(* A QString is a sequence of one-character strings, <<"C","A","B">>.      *)
(* A QStringList is a sequence of such words.                              *)
(***************************************************************************)
EXTENDS Integers, Sequences, FiniteSets, TLC

VARIABLES
    graph,        \* WordEngine::graph: the set of words held by the word graph
    lexiconName,  \* WordEngine::lexiconName (0: none)
    numAnagramsMap, \* WordEngine::numAnagramsMap: alphagram -> count
    dbOpen,       \* db.isOpen()
    dbStore,      \* which database file the connection db reads (0: none)
    wordCache,    \* WordEngine::wordCache: word -> WordInfo
    cacheSource,  \* history: the dbStore each cached entry was read from
    op,           \* the operation that produced this state
    callSpec,     \* search: the specification passed in
    callCaps,     \* search: the allCaps argument
    stages,       \* search: the stages that ran, in order
    wgResult,     \* search: the list returned by wordGraphSearch
    dbCandidates, \* search: the wordList argument handed to databaseSearch
    dbResult,     \* search: the list returned by databaseSearch
    result,       \* the value returned by the operation
    postWords,    \* applyPostConditions: the wordList argument
    postConds,    \* applyPostConditions: optimizedSpec.conditions
    postTrace,    \* applyPostConditions: the values of its local variables
    definitions,  \* WordEngine::definitions: word -> part of speech -> text
    link,         \* replaceDefinitionLinks: the arguments and locals of a call
    threads,      \* the callers running at once: where each is, and its locals
    stems,        \* WordEngine::stems: length -> list of stems
    stemAlphagrams, \* WordEngine::stemAlphagrams: length -> set of alphagrams
    quizDb,       \* QuizDatabase::db: its connection and the tables of its file
    history       \* history: the files imported so far, in order

vars == <<graph, lexiconName, numAnagramsMap, dbOpen, dbStore, wordCache,
          cacheSource, op, callSpec, callCaps, stages, wgResult, dbCandidates,
          dbResult, result, postWords, postConds, postTrace, definitions,
          link, threads, stems, stemAlphagrams, quizDb, history>>

----------------------------------------------------------------------------
(* Characters and strings                                                  *)

UpperChars == <<"A", "B", "C">>
LowerChars == <<"a", "b", "c">>

\* The characters of the model in code-point order, the order in which
\* QString::operator< compares them.
CharOrder == <<"0", "1", "2", "3", "4", "5", "6", "7", "8", "9", "?",
               "A", "B", "C", "D", "E", "F", "H", "I", "N", "O", "R", "S",
               "T", "U", "a", "b", "c">>

Chars == {CharOrder[i] : i \in 1..Len(CharOrder)}

CharCode == [c \in Chars |-> CHOOSE i \in 1..Len(CharOrder) : CharOrder[i] = c]

IsLower(c) == \E i \in 1..Len(LowerChars) : LowerChars[i] = c

toUpperChar(c) ==
    IF IsLower(c)
    THEN UpperChars[CHOOSE i \in 1..Len(LowerChars) : LowerChars[i] = c]
    ELSE c

toLowerChar(c) ==
    IF \E i \in 1..Len(UpperChars) : UpperChars[i] = c
    THEN LowerChars[CHOOSE i \in 1..Len(UpperChars) : UpperChars[i] = c]
    ELSE c

\* QString::toUpper
toUpper(w) == [i \in 1..Len(w) |-> toUpperChar(w[i])]

MinOf(a, b) == IF a < b THEN a ELSE b

\* QString::operator<: lexicographic on code points, a proper prefix first.
StrLess(s, t) ==
    \E k \in 0..MinOf(Len(s), Len(t)) :
        /\ \A i \in 1..k : s[i] = t[i]
        /\ \/ (k = Len(s) /\ k < Len(t))
           \/ (k < Len(s) /\ k < Len(t) /\ CharCode[s[k+1]] < CharCode[t[k+1]])

\* The elements of a set of strings in ascending order (std::set<QString>
\* iteration, QMap<QString, T>::keys()).
RECURSIVE SortStrings(_)
SortStrings(S) ==
    IF S = {} THEN <<>>
    ELSE LET m == CHOOSE x \in S : \A y \in S \ {x} : StrLess(x, y)
         IN  <<m>> \o SortStrings(S \ {m})

Range(s) == {s[i] : i \in 1..Len(s)}

\* Number of positions of w holding the character c.
CountChar(w, c) == Cardinality({i \in 1..Len(w) : w[i] = c})

\* Auxil::getAlphagram: the letters of the word in ascending order.
RECURSIVE InsertChar(_, _)
InsertChar(sorted, c) ==
    IF sorted = <<>> THEN <<c>>
    ELSE IF CharCode[c] < CharCode[Head(sorted)] THEN <<c>> \o sorted
    ELSE <<Head(sorted)>> \o InsertChar(Tail(sorted), c)

RECURSIVE getAlphagram(_)
getAlphagram(w) ==
    IF w = <<>> THEN <<>>
    ELSE InsertChar(getAlphagram(SubSeq(w, 1, Len(w) - 1)), w[Len(w)])

----------------------------------------------------------------------------
(* The letter bag                                                           *)

\* Tiles per letter in the reference bag, and the number of blank tiles.
BagSupply ==
    [c \in {"A", "B", "C", "D", "E", "F", "H", "I", "N", "O", "R", "S", "T", "U"} |->
        CASE c \in {"E"} -> 12
          [] c \in {"A", "I"} -> 9
          [] c \in {"O"} -> 8
          [] c \in {"N", "R", "T"} -> 6
          [] c \in {"D", "S", "U"} -> 4
          [] OTHER -> 2]
NumBlanks == 2

RECURSIVE Binomial(_, _)
Binomial(n, k) ==
    IF k < 0 \/ k > n THEN 0
    ELSE IF k = 0 THEN 1
    ELSE (Binomial(n - 1, k - 1) * n) \div k

RECURSIVE SumOver(_, _)
SumOver(f, S) ==
    IF S = {} THEN 0
    ELSE LET x == CHOOSE y \in S : TRUE IN f[x] + SumOver(f, S \ {x})

RECURSIVE ProductOver(_, _)
ProductOver(f, S) ==
    IF S = {} THEN 1
    ELSE LET x == CHOOSE y \in S : TRUE IN f[x] * ProductOver(f, S \ {x})

\* LetterBag::getNumCombinations: the number of ways the letters of the word
\* can be drawn from the bag, summed over every way of letting blanks stand
\* for some of its letters.
getNumCombinations(word) ==
    LET L   == Range(word)
        cnt == [l \in L |-> CountChar(word, l)]
        R   == {r \in [L -> 0..NumBlanks] :
                   /\ \A l \in L : r[l] <= cnt[l]
                   /\ SumOver(r, L) <= NumBlanks}
        ways == [r \in R |->
                   Binomial(NumBlanks, SumOver(r, L)) *
                   ProductOver([l \in L |-> Binomial(BagSupply[l], cnt[l] - r[l])], L)]
    IN  SumOver(ways, R)

----------------------------------------------------------------------------
(* Lexicon files and databases                                              *)

\* The lines of the word-list files the model imports, one word to a line.
FileLines(f) ==
    IF f = 1
    THEN <<<<"A","B">>, <<"B","A">>, <<"A","C">>, <<"B","C">>,
           <<"C","A","B">>, <<"C","B","A">>>>
    ELSE IF f = 2
    THEN <<<<"A","B">>, <<"b","a">>, <<>>, <<"A","B">>>>
    ELSE <<<<"A","B">>, <<"B","A">>, <<"A","C">>, <<"B","C">>,
           <<"C","A","B">>, <<"C","B","A">>, <<"A","B","C">>>>

Files == {1, 2}

FileWords(f) == {toUpper(FileLines(f)[i]) : i \in 1..Len(FileLines(f))} \ {<<>>}

\* The database files of the model: the words table of each.
Stores == {1, 2}

DbWords(k) ==
    IF k = 1 THEN FileWords(1)
    ELSE {<<"A","B">>, <<"B","C">>, <<"C","A","B">>}

AllWords == FileWords(1) \cup FileWords(2) \cup DbWords(1) \cup DbWords(2)

NumCombinations == [w \in AllWords |-> getNumCombinations(w)]

IsVowel(c) == c = "A"

NumVowelsOf(w) == Cardinality({i \in 1..Len(w) : IsVowel(w[i])})

LetterValue(c) == IF c = "A" THEN 1 ELSE 3

\* The words of a table that come before w in probability order.
Before(k, w) ==
    {v \in DbWords(k) :
        /\ Len(v) = Len(w)
        /\ \/ NumCombinations[v] > NumCombinations[w]
           \/ NumCombinations[v] = NumCombinations[w] /\ StrLess(v, w)}

Tied(k, w) ==
    {v \in DbWords(k) :
        Len(v) = Len(w) /\ NumCombinations[v] = NumCombinations[w]}

Hooks(k, w, front) ==
    LET hook(c) == (IF front THEN <<c>> \o w ELSE w \o <<c>>) \in DbWords(k)
        found   == SelectSeq(UpperChars, hook)
    IN  [i \in 1..Len(found) |-> toLowerChar(found[i])]

\* One row of the words table, in the fields WordInfo holds.
Row(k, w) ==
    [word                |-> w,
     probabilityOrder    |-> Cardinality(Before(k, w)) + 1,
     minProbabilityOrder |-> Cardinality({v \in Before(k, w) : v \notin Tied(k, w)}) + 1,
     maxProbabilityOrder |-> Cardinality(Before(k, w) \cup Tied(k, w)),
     numVowels           |-> NumVowelsOf(w),
     numUniqueLetters    |-> Cardinality(Range(w)),
     numAnagrams         |-> Cardinality({v \in DbWords(k) : getAlphagram(v) = getAlphagram(w)}),
     pointValue          |-> SumOver([i \in 1..Len(w) |-> LetterValue(w[i])], 1..Len(w)),
     frontHooks          |-> Hooks(k, w, TRUE),
     backHooks           |-> Hooks(k, w, FALSE),
     definition          |-> <<"definition", k, w>>]

Table == [k \in Stores |-> [w \in DbWords(k) |-> Row(k, w)]]

\* WordInfo(): the default-constructed, invalid word information.
InvalidInfo == [word |-> <<>>]

\* WordInfo::isValid
isValid(info) == info.word # <<>>

----------------------------------------------------------------------------
(* Search conditions and specifications                                     *)

Condition(type, stringValue, minValue, maxValue, negated, boolValue, legacy) ==
    [type |-> type, stringValue |-> stringValue, minValue |-> minValue,
     maxValue |-> maxValue, negated |-> negated, boolValue |-> boolValue,
     legacy |-> legacy]

StringCondition(type, stringValue, negated) ==
    Condition(type, stringValue, 0, 0, negated, FALSE, FALSE)

RangeCondition(type, minValue, maxValue, boolValue, legacy) ==
    Condition(type, <<>>, minValue, maxValue, FALSE, boolValue, legacy)

PostTypes  == {"BelongToGroup", "Prefix", "Suffix", "LimitByProbabilityOrder"}
GraphTypes == {"AnagramMatch", "PatternMatch", "SubanagramMatch", "ConsistOf"}
DbTypes    == {"Length", "InWordList", "NumVowels", "IncludeLetters",
               "ProbabilityOrder", "NumUniqueLetters", "PointValue",
               "NumAnagrams"}

CountTypes(conditions, types) ==
    Cardinality({i \in 1..Len(conditions) : conditions[i].type \in types})

\* SearchSpec::optimize: adds the Length condition a fixed-length pattern
\* implies, unless the specification already holds that condition.
RECURSIVE AddImplied(_, _)
AddImplied(conditions, todo) ==
    IF todo = <<>> THEN conditions
    ELSE LET c       == Head(todo)
             implied == RangeCondition("Length", Len(c.stringValue),
                                       Len(c.stringValue), FALSE, FALSE)
         IN  IF c.type = "PatternMatch" /\ implied \notin Range(conditions)
             THEN AddImplied(Append(conditions, implied), Tail(todo))
             ELSE AddImplied(conditions, Tail(todo))

optimize(spec) ==
    IF spec.conjunction
    THEN [spec EXCEPT !.conditions = AddImplied(spec.conditions, spec.conditions)]
    ELSE spec

----------------------------------------------------------------------------
(* The word graph stage                                                     *)

\* WordGraph::containsWord, through WordEngine::isAcceptable
isAcceptable(word, g) == word \in g

PatternMatches(word, pattern) ==
    /\ Len(word) = Len(pattern)
    /\ \A i \in 1..Len(word) : pattern[i] = "?" \/ pattern[i] = word[i]

\* The word uses every letter of the operand, and a blank for each other letter.
AnagramMatches(word, operand) ==
    /\ Len(word) = Len(operand)
    /\ \A c \in Range(UpperChars) : CountChar(operand, c) <= CountChar(word, c)

\* The word with each letter a blank stands for in lower case.
MarkBlanks(word, operand) ==
    [i \in 1..Len(word) |->
        IF CountChar(SubSeq(word, 1, i), word[i]) > CountChar(operand, word[i])
        THEN toLowerChar(word[i]) ELSE word[i]]

GraphConditionHolds(word, c) ==
    CASE c.type = "PatternMatch" -> PatternMatches(word, c.stringValue)
      [] c.type = "AnagramMatch" -> AnagramMatches(word, c.stringValue)
      [] OTHER                   -> TRUE

\* WordGraph::search, through WordEngine::wordGraphSearch: the words that
\* satisfy the conditions the graph recognizes, other conditions ignored.
wordGraphSearch(spec, g) ==
    LET conds   == spec.conditions
        mine    == {i \in 1..Len(conds) :
                       conds[i].type \in {"PatternMatch", "AnagramMatch"}}
        matches(w) ==
            IF mine = {} THEN TRUE
            ELSE IF spec.conjunction
                 THEN \A i \in mine : GraphConditionHolds(w, conds[i])
                 ELSE \E i \in mine : GraphConditionHolds(w, conds[i])
        blanks  == {i \in mine : conds[i].type = "AnagramMatch"
                                 /\ "?" \in Range(conds[i].stringValue)
                                 /\ spec.conjunction}
        shown(w) ==
            IF blanks = {} THEN w
            ELSE MarkBlanks(w, conds[CHOOSE i \in blanks :
                                        \A j \in blanks : i <= j].stringValue)
    IN  SortStrings({shown(w) : w \in {v \in g : matches(v)}})

----------------------------------------------------------------------------
(* The database stage                                                       *)

\* A predicate that takes equal bounds for a lower bound only.
RangePredicate_EqualIsAtLeast(value, c) ==
    IF c.minValue = c.maxValue
    THEN value >= c.minValue
    ELSE value >= c.minValue /\ value <= c.maxValue

\* " column=min" when the bounds are equal, else
\* " column>=min AND column<=max"
RangePredicate(value, c) ==
    IF c.minValue = c.maxValue
    THEN value = c.minValue
    ELSE value >= c.minValue /\ value <= c.maxValue

\* A WHERE clause that compares the exact rank for a lax condition too.
WhereClause_LaxOnExactRank(row, w, c) ==
    CASE c.type = "ProbabilityOrder" ->
            IF c.boolValue
            THEN row.probabilityOrder >= c.minValue
                 /\ row.probabilityOrder <= c.maxValue
            ELSE RangePredicate(row.probabilityOrder, c)
      [] c.type = "Length"           -> RangePredicate(Len(w), c)
      [] c.type = "NumVowels"        -> RangePredicate(row.numVowels, c)
      [] c.type = "NumUniqueLetters" -> RangePredicate(row.numUniqueLetters, c)
      [] c.type = "PointValue"       -> RangePredicate(row.pointValue, c)
      [] c.type = "NumAnagrams"      -> RangePredicate(row.numAnagrams, c)
      [] c.type = "IncludeLetters"   ->
            \A i \in 1..Len(c.stringValue) :
                (toUpperChar(c.stringValue[i]) \in Range(w)) # c.negated
      [] OTHER                       -> TRUE

\* The part of the WHERE clause one condition contributes, on the row of word w.
WhereClause(row, w, c) ==
    CASE c.type = "ProbabilityOrder" ->
            IF c.boolValue
            THEN row.maxProbabilityOrder >= c.minValue
                 /\ row.minProbabilityOrder <= c.maxValue
            ELSE RangePredicate(row.probabilityOrder, c)
      [] c.type = "Length"           -> RangePredicate(Len(w), c)
      [] c.type = "NumVowels"        -> RangePredicate(row.numVowels, c)
      [] c.type = "NumUniqueLetters" -> RangePredicate(row.numUniqueLetters, c)
      [] c.type = "PointValue"       -> RangePredicate(row.pointValue, c)
      [] c.type = "NumAnagrams"      -> RangePredicate(row.numAnagrams, c)
      [] c.type = "IncludeLetters"   ->
            \A i \in 1..Len(c.stringValue) :
                (toUpperChar(c.stringValue[i]) \in Range(w)) # c.negated
      [] OTHER                       -> TRUE

\* Whether the row of word w in table k satisfies condition c.
DbConditionHolds(k, w, c) == WhereClause(Table[k][w], w, c)

\* The wordList argument of databaseSearch: a null pointer, or a list.
NoList == [given |-> FALSE, words |-> <<>>]
TheList(words) == [given |-> TRUE, words |-> words]

\* QMap upperToLower: the last word of the list that has this upper-case form.
upperToLower(wordList, upper) ==
    wordList[CHOOSE i \in 1..Len(wordList) :
                /\ toUpper(wordList[i]) = upper
                /\ \A j \in (i+1)..Len(wordList) : toUpper(wordList[j]) # upper]

\* A database stage that returns the table's own spelling of each word.
ResultWord_TableSpelling(arg, word) == word

\* The word the result list receives for a row of the table.
ResultWord(arg, word) ==
    IF arg.given /\ \E i \in 1..Len(arg.words) : toUpper(arg.words[i]) = word
    THEN upperToLower(arg.words, word)
    ELSE word

\* WordEngine::databaseSearch: the rows that satisfy every database
\* condition, AND word IN (the upper-cased list) when a list is given.  A
\* query on a connection that is not open has no rows.
databaseSearch(conditions, arg, open, k) ==
    IF ~open THEN <<>>
    ELSE
        LET uppers == {toUpper(arg.words[i]) : i \in 1..Len(arg.words)}
            rows   == {w \in DbWords(k) :
                          /\ \A i \in 1..Len(conditions) :
                                 DbConditionHolds(k, w, conditions[i])
                          /\ arg.given => w \in uppers}
            sorted == SortStrings(rows)
        IN  [i \in 1..Len(sorted) |-> ResultWord(arg, sorted[i])]

----------------------------------------------------------------------------
(* The post-condition stage                                                 *)

\* The group names of the model, each held as one token, and the search
\* set Auxil::stringToSearchSet gives for a name.
GroupNames == {"Hook Words", "Front Hooks", "Back Hooks", "Type I Sevens"}
UnknownSearchSet == "UnknownSearchSet"
stringToSearchSet(name) ==
    IF Len(name) = 1 /\ name[1] \in GroupNames THEN name[1]
    ELSE UnknownSearchSet

\* word.left (word.length() - 1) and word.right (word.length() - 1)
AllButLast(word) == SubSeq(word, 1, Len(word) - 1)
AllButFirst(word) == SubSeq(word, 2, Len(word))

\* No stem file imported.
NoStems == <<>>

\* The names of the stem sets.
StemSets == {"Type I Sevens", "Type I Eights", "Type II Sevens",
             "Type II Eights", "Type III Sevens", "Type III Eights",
             "Eights From Seven-Letter Stems"}

\* The statics of isSetMember.
typeTwoChars == <<"A", "A", "A", "D", "E", "E", "E", "E", "G", "I", "I", "I",
                  "L", "N", "N", "O", "O", "R", "R", "S", "S", "T", "T", "U">>
typeThreeSevenCombos == getNumCombinations(<<"H", "U", "N", "T", "E", "R", "S">>)
typeThreeEightCombos ==
    getNumCombinations(<<"N", "O", "T", "I", "F", "I", "E", "D">>)

\* agram.left (i) + agram.right (agram.length() - i - 1)
WithoutLetterAt(agram, i) ==
    SubSeq(agram, 1, i) \o SubSeq(agram, i + 2, Len(agram))

\* The loop "for (int i = 0; i < agram.length(); ++i)" over the alphagrams
\* stored for the words one letter shorter.
oneLetterOverStem(word, sa) ==
    /\ (Len(word) - 1) \in DOMAIN sa
    /\ \E i \in 0..(Len(word) - 1) :
          WithoutLetterAt(getAlphagram(word), i) \in sa[Len(word) - 1]

\* The inner loop of SetTypeOneEights from i, saIndex and missing on: the
\* value of missing when the loop is left.
RECURSIVE missingLetters(_, _, _, _, _)
missingLetters(agram, setAlphagram, i, saIndex, missing) ==
    IF ~(i < Len(agram) /\ saIndex < Len(setAlphagram)) THEN missing
    ELSE LET hit  == agram[i + 1] = setAlphagram[saIndex + 1]
             next == IF hit THEN missing ELSE missing + 1
         IN  IF next > 2 THEN next
             ELSE missingLetters(agram, setAlphagram, i + 1,
                                 IF hit THEN saIndex + 1 ELSE saIndex, next)

typeOneSevens_AnyLength(word, sa) == oneLetterOverStem(word, sa)

typeOneSevens(word, sa) == Len(word) = 7 /\ oneLetterOverStem(word, sa)

typeOneEights(word, sa) ==
    /\ Len(word) = 8
    /\ (Len(word) - 2) \in DOMAIN sa
    /\ \E setAlphagram \in sa[Len(word) - 2] :
          missingLetters(getAlphagram(word), setAlphagram, 0, 0, 0) <= 2

\* The loop over typeTwoChars from ti and wi on: the value of ok.
RECURSIVE typeTwoOk(_, _, _)
typeTwoOk(alphagram, ti, wi) ==
    IF ti >= Len(typeTwoChars) THEN FALSE
    ELSE IF typeTwoChars[ti + 1] # alphagram[wi + 1]
    THEN typeTwoOk(alphagram, ti + 1, wi)
    ELSE IF wi + 1 = Len(alphagram) THEN TRUE
    ELSE typeTwoOk(alphagram, ti + 1, wi + 1)

typeTwo_NotLessTypeOne(word, n, isTypeOne) ==
    Len(word) = n /\ typeTwoOk(getAlphagram(word), 0, 0)

typeTwo(word, n, isTypeOne) ==
    Len(word) = n /\ typeTwoOk(getAlphagram(word), 0, 0) /\ ~isTypeOne

typeThree(word, n, combos, isTypeOne, isTypeTwo) ==
    Len(word) = n /\ getNumCombinations(word) >= combos
                  /\ ~isTypeOne /\ ~isTypeTwo

\* WordEngine::isSetMember for the sets that are made from the stems; sa is
\* stemAlphagrams.
isStemSetMember(word, ss, sa) ==
    CASE ss = "Type I Sevens"   -> typeOneSevens(word, sa)
      [] ss = "Type I Eights"   -> typeOneEights(word, sa)
      [] ss = "Type II Sevens"  -> typeTwo(word, 7, typeOneSevens(word, sa))
      [] ss = "Type II Eights"  -> typeTwo(word, 8, typeOneEights(word, sa))
      [] ss = "Type III Sevens" ->
            typeThree(word, 7, typeThreeSevenCombos, typeOneSevens(word, sa),
                      typeTwo(word, 7, typeOneSevens(word, sa)))
      [] ss = "Type III Eights" ->
            typeThree(word, 8, typeThreeEightCombos, typeOneEights(word, sa),
                      typeTwo(word, 8, typeOneEights(word, sa)))
      [] ss = "Eights From Seven-Letter Stems" ->
            Len(word) = 8 /\ oneLetterOverStem(word, sa)
      [] OTHER -> FALSE

\* WordEngine::isSetMember on an engine that has imported no stems: the hook
\* sets look the shortened word up; stemAlphagrams has no entry, so no word
\* is a type one seven.
isSetMember(word, ss, g) ==
    CASE ss = "Hook Words"  -> isAcceptable(AllButLast(word), g)
                               \/ isAcceptable(AllButFirst(word), g)
      [] ss = "Front Hooks" -> isAcceptable(AllButFirst(word), g)
      [] ss = "Back Hooks"  -> isAcceptable(AllButLast(word), g)
      [] ss = "Type I Sevens" -> isStemSetMember(word, ss, NoStems)
      [] OTHER -> FALSE

\* A test of conditions in which a Suffix condition takes no account of
\* its negation flag.
ConditionAccepts_SuffixNotNegated(wordUpper, c, g) ==
    CASE c.type = "Prefix" ->
            ~((~isAcceptable(c.stringValue \o wordUpper, g)) # c.negated)
      [] c.type = "Suffix" -> isAcceptable(wordUpper \o c.stringValue, g)
      [] c.type = "BelongToGroup" ->
            \/ stringToSearchSet(c.stringValue) = UnknownSearchSet
            \/ ~((~isSetMember(wordUpper, stringToSearchSet(c.stringValue), g))
                  # c.negated)
      [] OTHER -> TRUE

\* WordEngine::matchesConditions: a Prefix, Suffix or BelongToGroup
\* condition rejects the word when (not acceptable / not a member) XOR
\* negated; a BelongToGroup condition on an unknown search set is passed
\* over; other conditions are not tested.
ConditionAccepts(wordUpper, c, g) ==
    CASE c.type = "Prefix" ->
            ~((~isAcceptable(c.stringValue \o wordUpper, g)) # c.negated)
      [] c.type = "Suffix" ->
            ~((~isAcceptable(wordUpper \o c.stringValue, g)) # c.negated)
      [] c.type = "BelongToGroup" ->
            \/ stringToSearchSet(c.stringValue) = UnknownSearchSet
            \/ ~((~isSetMember(wordUpper, stringToSearchSet(c.stringValue), g))
                  # c.negated)
      [] OTHER -> TRUE

matchesConditions(word, conditions, g) ==
    \A i \in 1..Len(conditions) : ConditionAccepts(toUpper(word), conditions[i], g)

\* A post-condition stage that leaves out the erase loop.
Survivors_NoFilter(conditions, wordList, g) == wordList

\* The loop that erases from returnList the words matchesConditions rejects.
Survivors(conditions, wordList, g) ==
    LET keep(w) == matchesConditions(w, conditions, g)
    IN  SelectSeq(wordList, keep)

MaxOfSet(S) == CHOOSE x \in S : \A y \in S : y <= x
MinOfSet(S) == CHOOSE x \in S : \A y \in S : x <= y

\* The initial value of probLimitRangeMax and probLimitRangeMaxLax.
ProbLimitRangeMaxInit == 999999

\* The loop over the LimitByProbabilityOrder conditions: the highest
\* minValue and the lowest maxValue, kept apart for lax and strict conditions.
LimitRanges(conditions) ==
    LET limits == {i \in 1..Len(conditions) :
                      conditions[i].type = "LimitByProbabilityOrder"}
        lax    == {i \in limits : conditions[i].boolValue}
        strict == limits \ lax
    IN  [probLimitRangeCondition |-> limits # {},
         legacyProbCondition     |-> \E i \in limits : conditions[i].legacy,
         probLimitRangeMin    |-> MaxOfSet({0} \cup {conditions[i].minValue : i \in strict}),
         probLimitRangeMax    |-> MinOfSet({ProbLimitRangeMaxInit}
                                       \cup {conditions[i].maxValue : i \in strict}),
         probLimitRangeMinLax |-> MaxOfSet({0} \cup {conditions[i].minValue : i \in lax}),
         probLimitRangeMaxLax |-> MinOfSet({ProbLimitRangeMaxInit}
                                       \cup {conditions[i].maxValue : i \in lax})]

\* sprintf ("%09.0f", value): nine decimal digits, zero padded, for a value
\* of at most nine digits.
Format09(value) ==
    LET power(i) == CASE i = 1 -> 100000000 [] i = 2 -> 10000000
                      [] i = 3 -> 1000000   [] i = 4 -> 100000
                      [] i = 5 -> 10000     [] i = 6 -> 1000
                      [] i = 7 -> 100       [] i = 8 -> 10
                      [] OTHER -> 1
    IN  [i \in 1..9 |-> CharOrder[((value \div power(i)) % 10) + 1]]

Combinations(wordUpper) ==
    IF wordUpper \in DOMAIN NumCombinations
    THEN NumCombinations[wordUpper]
    ELSE getNumCombinations(wordUpper)

\* A key that holds the alphagram in legacy mode too.
Radix_AlwaysAlphagram(word, legacy) ==
    LET wordUpper == toUpper(word)
    IN  Format09(1000000000 - 1 - Combinations(wordUpper))
        \o getAlphagram(wordUpper) \o wordUpper

\* The key a word is filed under in probMap.
Radix(word, legacy) ==
    LET wordUpper == toUpper(word)
    IN  Format09(1000000000 - 1 - Combinations(wordUpper))
        \o (IF legacy THEN <<>> ELSE getAlphagram(wordUpper))
        \o wordUpper

\* A tie test on the combination count and the alphagram together.
Left9_WithAlphagram(radix) == SubSeq(radix, 1, 9 + ((Len(radix) - 9) \div 2))

\* radix.left (9)
Left9(radix) == SubSeq(radix, 1, 9)

\* QMap probMap after the foreach loop: a later word replaces an earlier
\* one with the same key.
ProbMap(returnList, legacy) ==
    [r \in {Radix(returnList[i], legacy) : i \in 1..Len(returnList)} |->
        returnList[CHOOSE i \in 1..Len(returnList) :
            /\ Radix(returnList[i], legacy) = r
            /\ \A j \in (i+1)..Len(returnList) : Radix(returnList[j], legacy) # r]]

\* The two widening loops.  Indexes are 0-based as in the code; keys[i] is
\* keys[i + 1] here.
RECURSIVE WidenMin(_, _, _, _)
WidenMin(keys, min, probLimitRangeMin, minCombinations) ==
    IF (min > 0) /\ (min > probLimitRangeMin)
    THEN IF minCombinations # Left9(keys[min])
         THEN min
         ELSE WidenMin(keys, min - 1, probLimitRangeMin, minCombinations)
    ELSE min

\* An upper end that is never widened.
WidenMax_NoWidening(keys, max, probLimitRangeMax, maxCombinations) == max

RECURSIVE WidenMax(_, _, _, _)
WidenMax(keys, max, probLimitRangeMax, maxCombinations) ==
    IF (max < Len(keys) - 1) /\ (max < probLimitRangeMax)
    THEN IF maxCombinations # Left9(keys[max + 2])
         THEN max
         ELSE WidenMax(keys, max + 1, probLimitRangeMax, maxCombinations)
    ELSE max

\* QList::mid (pos, length): a negative length, or one that runs past the
\* end, takes everything from pos on.
Mid(list, pos, length) ==
    LET n == IF length < 0 \/ pos + length > Len(list)
             THEN Len(list) - pos ELSE length
    IN  SubSeq(list, pos + 1, pos + n)

InBounds(keys, index) == index >= 0 /\ index <= Len(keys) - 1

\* WordEngine::applyPostConditions, with the values of its local variables.
\* indexed is FALSE when a return came before the key list was indexed;
\* defined is FALSE when keys[min] or keys[max] is outside the key list.
applyPostConditions(conditions, wordList, g) ==
    LET window(returnList, range) ==
          LET size  == Len(returnList)
              early == (range.probLimitRangeMin > size)
                       \/ (range.probLimitRangeMinLax > size)
              \* Convert from 1-based to 0-based offset, and clamp
              lowS == IF range.probLimitRangeMin - 1 < 0 THEN 0
                      ELSE range.probLimitRangeMin - 1
              lowL == IF range.probLimitRangeMinLax - 1 < 0 THEN 0
                      ELSE range.probLimitRangeMinLax - 1
              highS == IF range.probLimitRangeMax - 1 > size - 1 THEN size - 1
                       ELSE range.probLimitRangeMax - 1
              highL == IF range.probLimitRangeMaxLax - 1 > size - 1 THEN size - 1
                       ELSE range.probLimitRangeMaxLax - 1
              slice(min0, max0, probMap, keys) ==
                LET values == [i \in 1..Len(keys) |-> probMap[keys[i]]]
                    base == [returnList |-> returnList, range |-> range,
                             probLimitRangeMin |-> lowS,
                             probLimitRangeMax |-> highS,
                             workingMin |-> min0, workingMax |-> max0,
                             values |-> values]
                    widened(min, max) ==
                        base @@ [indexed |-> TRUE, defined |-> TRUE,
                                 keys |-> keys, min |-> min, max |-> max,
                                 list |-> Mid(values, min, max - min + 1)]
                IN  IF ~(InBounds(keys, min0) /\ InBounds(keys, max0))
                    THEN base @@ [indexed |-> TRUE, defined |-> FALSE,
                                  keys |-> keys, min |-> min0, max |-> max0,
                                  list |-> <<>>]
                    ELSE widened(WidenMin(keys, min0, lowS, Left9(keys[min0 + 1])),
                                 WidenMax(keys, max0, highS, Left9(keys[max0 + 1])))
              sorted(min0, max0, probMap) ==
                  slice(min0, max0, probMap, SortStrings(DOMAIN probMap))
              unindexed(list) ==
                  [returnList |-> returnList, range |-> range,
                   probLimitRangeMin |-> lowS, probLimitRangeMax |-> highS,
                   workingMin |-> 0, workingMax |-> 0, values |-> <<>>,
                   indexed |-> FALSE, defined |-> TRUE, keys |-> <<>>,
                   min |-> 0, max |-> 0, list |-> list]
          IN  IF ~range.probLimitRangeCondition THEN unindexed(returnList)
              ELSE IF early THEN unindexed(<<>>)
              ELSE sorted(IF lowS > lowL THEN lowS ELSE lowL,
                          IF highS < highL THEN highS ELSE highL,
                          ProbMap(returnList, range.legacyProbCondition))
    IN  window(Survivors(conditions, wordList, g), LimitRanges(conditions))

\* Indexing a QList outside its bounds is undefined: the call may abort the
\* process or go on with some list.  The outcomes of one call.
PostOutcomes(conditions, wordList, g) ==
    LET outcomes(run) ==
          IF run.defined
          THEN {[crashed |-> FALSE, list |-> run.list, trace |-> run]}
          ELSE {[crashed |-> TRUE, list |-> <<>>, trace |-> run]}
               \cup {[crashed |-> FALSE, list |-> l, trace |-> run] :
                        l \in {<<>>, run.returnList}}
    IN  outcomes(applyPostConditions(conditions, wordList, g))

----------------------------------------------------------------------------
(* The word information cache                                               *)

\* WordEngine::addToCache on a cache: the rows SELECT ... WHERE word IN
\* (words) returns are stored under their word.
addToCache(cache, words, open, k) ==
    IF words = <<>> \/ ~open THEN cache
    ELSE LET found == DbWords(k) \cap Range(words)
         IN  [w \in (DOMAIN cache) \cup found |->
                 IF w \in found THEN Table[k][w] ELSE cache[w]]

\* The history variable that goes with addToCache.
addToSource(source, words, open, k) ==
    IF words = <<>> \/ ~open THEN source
    ELSE LET found == DbWords(k) \cap Range(words)
         IN  [w \in (DOMAIN source) \cup found |->
                 IF w \in found THEN k ELSE source[w]]

\* WordEngine::clearCache
EmptyCache == <<>>

----------------------------------------------------------------------------
(* WordEngine::search                                                       *)

\* A search without the correction for Length conditions.
databaseConditions_NoCorrection(conditions) == CountTypes(conditions, DbTypes)

\* databaseConditions after the classification loop and the correction for
\* Length conditions that go with a word graph condition.
databaseConditions(conditions) ==
    LET wordGraphConditions == CountTypes(conditions, GraphTypes)
        counted             == CountTypes(conditions, DbTypes)
        lengthConditions    == CountTypes(conditions, {"Length"})
    IN  IF (wordGraphConditions > 0) /\ (counted >= 1)
           /\ (lengthConditions = counted)
        THEN counted - 1
        ELSE counted

\* A search that goes to the word graph only for word graph conditions.
searchesGraph_OnlyGraphConditions(conditions) ==
    CountTypes(conditions, GraphTypes) > 0

\* "if (wordGraphConditions || !databaseConditions)"
searchesGraph(conditions) ==
    CountTypes(conditions, GraphTypes) > 0 \/ databaseConditions(conditions) = 0

\* The wordList argument search hands to databaseSearch.
databaseArgument(conditions, resultList) ==
    IF CountTypes(conditions, GraphTypes) > 0 THEN TheList(resultList) ELSE NoList

\* A search that adds to the cache without clearing it first.
cacheAfterSearch_NoClear(cache, resultList, open, k) ==
    addToCache(cache, resultList, open, k)

\* The cache after the last lines of search.
cacheAfterSearch(cache, resultList, open, k) ==
    IF resultList # <<>>
    THEN addToCache(EmptyCache, resultList, open, k)
    ELSE cache

sourceAfterSearch(source, resultList, open, k) ==
    IF resultList # <<>>
    THEN addToSource(EmptyCache, resultList, open, k)
    ELSE source

NoTrace == [indexed |-> FALSE, defined |-> TRUE]

\* The locals of search after the classification loop and the correction.
classify(optimizedSpec, allCaps, g, open, k) ==
    [optimizedSpec  |-> optimizedSpec,
     conditions     |-> optimizedSpec.conditions,
     postConditions |-> CountTypes(optimizedSpec.conditions, PostTypes),
     inGraph        |-> searchesGraph(optimizedSpec.conditions),
     inDb           |-> databaseConditions(optimizedSpec.conditions) > 0,
     allCaps |-> allCaps, g |-> g, open |-> open, k |-> k,
     resultList |-> <<>>, returned |-> FALSE,
     stages |-> <<>>, wgResult |-> <<>>, dbCandidates |-> NoList,
     dbResult |-> <<>>, postWords |-> <<>>, postTrace |-> NoTrace,
     crashed |-> FALSE, atEnd |-> FALSE, result |-> <<>>]

\* "if (resultList.isEmpty()) return resultList;" after the word graph.
afterGraph(r) ==
    [r EXCEPT !.resultList = r.wgResult, !.returned = (r.wgResult = <<>>)]

\* "if (wordGraphConditions || !databaseConditions)": the word graph stage.
wordGraphStage(r) ==
    IF ~r.inGraph THEN r
    ELSE afterGraph([r EXCEPT
                        !.stages = <<"graph">>,
                        !.wgResult = wordGraphSearch(r.optimizedSpec, r.g)])

\* "if (resultList.isEmpty()) return resultList;" after the database.
afterDatabase(r) ==
    [r EXCEPT !.resultList = r.dbResult, !.returned = (r.dbResult = <<>>)]

\* "if (databaseConditions)": the database stage.
databaseStage(r) ==
    IF r.returned \/ ~r.inDb THEN r
    ELSE afterDatabase([r EXCEPT
            !.stages = @ \o <<"database">>,
            !.dbCandidates = databaseArgument(r.conditions, r.resultList),
            !.dbResult = databaseSearch(r.conditions,
                             databaseArgument(r.conditions, r.resultList),
                             r.open, r.k)])

\* "if (allCaps)": every word of the list in upper case.
allCapsList(list, allCaps) ==
    IF allCaps THEN [i \in 1..Len(list) |-> toUpper(list[i])] ELSE list

\* "if (postConditions)", the allCaps loop and the end of search: one run,
\* unless the post-condition stage has several outcomes.
postStage(r) ==
    IF r.returned THEN {r}
    ELSE IF r.postConditions = 0
    THEN {[r EXCEPT !.atEnd = TRUE,
                    !.result = allCapsList(r.resultList, r.allCaps)]}
    ELSE {[r EXCEPT !.stages = @ \o <<"post">>,
                    !.postWords = r.resultList,
                    !.postTrace = o.trace,
                    !.crashed = o.crashed,
                    !.atEnd = ~o.crashed,
                    !.result = allCapsList(o.list, r.allCaps)] :
             o \in PostOutcomes(r.conditions, r.resultList, r.g)}

\* The runs of search (spec, allCaps).  Each names the stages that ran and
\* what they gave.
searchRuns(spec, allCaps, g, open, k) ==
    postStage(databaseStage(wordGraphStage(
        classify(optimize(spec), allCaps, g, open, k))))

----------------------------------------------------------------------------
(* The other operations of the engine                                       *)

\* WordEngine::getWordInfo: the value returned and the cache afterwards.
getWordInfo(word, cache, open, k) ==
    IF word = <<>> THEN [info |-> InvalidInfo, cache |-> cache, read |-> FALSE]
    ELSE IF word \in DOMAIN cache
    THEN [info |-> cache[word], cache |-> cache, read |-> FALSE]
    ELSE IF ~open THEN [info |-> InvalidInfo, cache |-> cache, read |-> FALSE]
    ELSE IF word \in DbWords(k)
    THEN [info  |-> Table[k][word],
          cache |-> [w \in (DOMAIN cache) \cup {word} |->
                        IF w = word THEN Table[k][word] ELSE cache[w]],
          read  |-> TRUE]
    ELSE [info |-> InvalidInfo, cache |-> cache, read |-> FALSE]

\* The loop of WordEngine::importTextFile over the lines of the file.
RECURSIVE importLines(_, _)
importLines(lines, state) ==
    IF lines = <<>> THEN state
    ELSE LET line  == Head(lines)
             word  == toUpper(line)
             alpha == getAlphagram(word)
             old   == state.numAnagramsMap
             count == IF alpha \in DOMAIN old THEN old[alpha] ELSE 0
         IN  IF line = <<>>
             THEN importLines(Tail(lines), state)
             ELSE importLines(Tail(lines),
                     [graph |-> state.graph \cup {word},
                      numAnagramsMap |->
                          IF word \in state.graph THEN old
                          ELSE [a \in (DOMAIN old) \cup {alpha} |->
                                   IF a = alpha THEN count + 1 ELSE old[a]],
                      imported |-> state.imported + 1])

----------------------------------------------------------------------------
(* The engine as a state machine                                            *)

\* Bounds on the specifications the model searches with.
MaxLengthConds == 2

PatternAny == StringCondition("PatternMatch", <<"A", "?">>, FALSE)
AnagramBlank == StringCondition("AnagramMatch", <<"B", "?">>, FALSE)
PrefixC == StringCondition("Prefix", <<"C">>, FALSE)
NumVowelsOne == RangeCondition("NumVowels", 1, 1, FALSE, FALSE)
LimitFirst == RangeCondition("LimitByProbabilityOrder", 1, 1, TRUE, FALSE)

LengthConds(n) == [i \in 1..n |-> RangeCondition("Length", 2, i + 1, FALSE, FALSE)]

GraphParts == {<<>>, <<PatternAny>>, <<AnagramBlank>>}
DbParts    == {LengthConds(n) : n \in 0..MaxLengthConds} \cup {<<NumVowelsOne>>}
PostParts  == {<<>>, <<PrefixC, LimitFirst>>}

Specs ==
    {[conditions |-> g \o d \o p, conjunction |-> TRUE] :
        g \in GraphParts, d \in DbParts, p \in PostParts}
    \ {[conditions |-> <<>>, conjunction |-> TRUE]}

\* The words the model looks up with getWordInfo.
LookupWords == {<<"A", "B">>, <<>>}

NoSpec == [conditions |-> <<>>, conjunction |-> TRUE]

\* No definition loaded, no call of replaceDefinitionLinks, one caller only.
NoDefinitions == <<>>
NoLink == [returned |-> TRUE]
NoThreads == <<>>

\* A QuizDatabase that was given no file.
NoQuizDb == [isOpen |-> FALSE, quiz |-> <<>>, questions |-> <<>>]

Quiet ==
    /\ callSpec' = NoSpec
    /\ callCaps' = FALSE
    /\ stages' = <<>>
    /\ wgResult' = <<>>
    /\ dbCandidates' = NoList
    /\ dbResult' = <<>>
    /\ postWords' = <<>>
    /\ postConds' = <<>>
    /\ postTrace' = NoTrace

Init ==
    /\ graph = {}
    /\ lexiconName = 0
    /\ numAnagramsMap = <<>>
    /\ dbOpen = FALSE
    /\ dbStore = 0
    /\ wordCache = EmptyCache
    /\ cacheSource = EmptyCache
    /\ op = "init"
    /\ callSpec = NoSpec
    /\ callCaps = FALSE
    /\ stages = <<>>
    /\ wgResult = <<>>
    /\ dbCandidates = NoList
    /\ dbResult = <<>>
    /\ result = <<>>
    /\ postWords = <<>>
    /\ postConds = <<>>
    /\ postTrace = NoTrace
    /\ definitions = NoDefinitions
    /\ link = NoLink
    /\ threads = NoThreads
    /\ stems = NoStems
    /\ stemAlphagrams = NoStems
    /\ quizDb = NoQuizDb
    /\ history = <<>>

\* WordEngine::importTextFile
ImportTextFile(f) ==
    /\ op # "crashed"
    /\ LET end == importLines(FileLines(f),
                      [graph |-> graph, numAnagramsMap |-> numAnagramsMap,
                       imported |-> 0])
       IN  /\ graph' = end.graph
           /\ numAnagramsMap' = end.numAnagramsMap
           /\ result' = end.imported
    /\ lexiconName' = f
    /\ op' = "importTextFile"
    /\ Quiet
    /\ UNCHANGED <<dbOpen, dbStore, wordCache, cacheSource>>
    /\ UNCHANGED <<definitions, link, threads,
                   stems, stemAlphagrams, quizDb, history>>

\* WordEngine::connectToDatabase: ok is what db.open() returns.
ConnectToDatabase(k, ok) ==
    /\ op # "crashed"
    /\ dbOpen' = ok
    /\ dbStore' = IF ok THEN k ELSE 0
    /\ result' = ok
    /\ op' = "connectToDatabase"
    /\ Quiet
    /\ UNCHANGED <<graph, lexiconName, numAnagramsMap, wordCache, cacheSource>>
    /\ UNCHANGED <<definitions, link, threads,
                   stems, stemAlphagrams, quizDb, history>>

\* WordEngine::disconnectFromDatabase
DisconnectFromDatabase ==
    /\ op # "crashed"
    /\ dbOpen' = FALSE
    /\ dbStore' = 0
    /\ result' = TRUE
    /\ op' = "disconnectFromDatabase"
    /\ Quiet
    /\ UNCHANGED <<graph, lexiconName, numAnagramsMap, wordCache, cacheSource>>
    /\ UNCHANGED <<definitions, link, threads,
                   stems, stemAlphagrams, quizDb, history>>

\* WordEngine::getWordInfo
GetWordInfo(word) ==
    /\ op # "crashed"
    /\ LET got == getWordInfo(word, wordCache, dbOpen, dbStore)
       IN  /\ result' = got.info
           /\ wordCache' = got.cache
           /\ cacheSource' =
                 IF got.read
                 THEN [w \in DOMAIN got.cache |->
                          IF w = word THEN dbStore ELSE cacheSource[w]]
                 ELSE cacheSource
    /\ op' = "getWordInfo"
    /\ Quiet
    /\ UNCHANGED <<graph, lexiconName, numAnagramsMap, dbOpen, dbStore>>
    /\ UNCHANGED <<definitions, link, threads,
                   stems, stemAlphagrams, quizDb, history>>

\* WordEngine::search
Search(spec, allCaps) ==
    /\ op # "crashed"
    /\ \E run \in searchRuns(spec, allCaps, graph, dbOpen, dbStore) :
        /\ op' = IF run.crashed THEN "crashed" ELSE "search"
        /\ callSpec' = spec
        /\ callCaps' = allCaps
        /\ stages' = run.stages
        /\ wgResult' = run.wgResult
        /\ dbCandidates' = run.dbCandidates
        /\ dbResult' = run.dbResult
        /\ postWords' = run.postWords
        /\ postConds' = IF "post" \in Range(run.stages)
                        THEN optimize(spec).conditions ELSE <<>>
        /\ postTrace' = run.postTrace
        /\ result' = run.result
        /\ wordCache' = IF run.atEnd
                        THEN cacheAfterSearch(wordCache, run.result, dbOpen, dbStore)
                        ELSE wordCache
        /\ cacheSource' = IF run.atEnd
                          THEN sourceAfterSearch(cacheSource, run.result, dbOpen, dbStore)
                          ELSE cacheSource
    /\ UNCHANGED <<graph, lexiconName, numAnagramsMap, dbOpen, dbStore>>
    /\ UNCHANGED <<definitions, link, threads,
                   stems, stemAlphagrams, quizDb, history>>

Next ==
    \/ \E f \in Files : ImportTextFile(f)
    \/ \E k \in Stores, ok \in BOOLEAN : ConnectToDatabase(k, ok)
    \/ DisconnectFromDatabase
    \/ \E word \in LookupWords : GetWordInfo(word)
    \/ \E spec \in Specs, allCaps \in BOOLEAN : Search(spec, allCaps)

Spec == Init /\ [][Next]_vars

----------------------------------------------------------------------------
(* Properties of WordEngine::search                                         *)

\* The conditions of the optimized specification of the last search.
LastConditions == optimize(callSpec).conditions

GraphCount  == CountTypes(LastConditions, GraphTypes)
DbCount     == CountTypes(LastConditions, DbTypes)
LengthCount == CountTypes(LastConditions, {"Length"})
PostCount   == CountTypes(LastConditions, PostTypes)

Ran(stage) == stage \in Range(stages)

\* C1 as stated: a search whose optimized specification has a word graph
\* condition and only Length conditions for the database, however many,
\* never runs the database stage.
C1_AnyNumberOfLengths ==
    (op = "search" /\ GraphCount > 0 /\ DbCount >= 1 /\ LengthCount = DbCount)
        => ~Ran("database")

\* C1 amended: with a word graph condition and exactly one database
\* condition, a Length condition, the database stage does not run; with two
\* or more Length conditions and a word graph result, it does run.
C1_OneLengthSkipsDatabase ==
    /\ (op = "search" /\ GraphCount > 0 /\ DbCount = 1 /\ LengthCount = 1)
          => ~Ran("database")
    /\ (op = "search" /\ GraphCount > 0 /\ DbCount >= 2 /\ LengthCount = DbCount
        /\ wgResult # <<>>)
          => Ran("database")

C1_Witness ==
    /\ op = "search" /\ GraphCount > 0 /\ DbCount = 1 /\ LengthCount = 1
    /\ stages = <<"graph">> /\ result # <<>> /\ dbOpen

\* C2: the word graph stage runs exactly when there is a word graph
\* condition or no database condition left to run, and when it returns an
\* empty list the search returns the empty list with no other stage run.
C2_GraphStageAndShortCircuit ==
    op = "search" =>
        /\ Ran("graph") <=> (GraphCount > 0 \/ DbCount = 0)
        /\ (Ran("graph") /\ wgResult = <<>>)
              => (result = <<>> /\ stages = <<"graph">>)

C2_Witness ==
    /\ op = "search" /\ stages = <<"graph">> /\ wgResult = <<>>
    /\ DbCount >= 2 /\ PostCount > 0 /\ dbOpen /\ result = <<>>

\* C3: when a word graph condition is present and the database stage runs,
\* the stage receives the word graph result as its word list, and every word
\* it returns is a word of that list, spelled as the list spells it.
C3_DatabaseKeepsCandidateSpelling ==
    (op = "search" /\ GraphCount > 0 /\ Ran("database")) =>
        /\ dbCandidates = TheList(wgResult)
        /\ \A i \in 1..Len(dbResult) : dbResult[i] \in Range(wgResult)

C3_Witness ==
    /\ op = "search" /\ GraphCount > 0 /\ Ran("database")
    /\ \E i \in 1..Len(dbResult) : dbResult[i] # toUpper(dbResult[i])

\* C4 as stated: with no database connected, a search with word graph
\* conditions and database conditions returns the word graph result.
C4_DegradesToGraphResult ==
    (op = "search" /\ ~dbOpen /\ dbStore = 0 /\ GraphCount > 0 /\ DbCount > 0
     /\ PostCount = 0 /\ wgResult # <<>>)
        => result = (IF callCaps THEN [i \in 1..Len(wgResult) |-> toUpper(wgResult[i])]
                     ELSE wgResult)

\* C5 as stated: after every search the cache holds no entry for a word
\* outside the returned list.
C5_CacheWithinEveryResult ==
    op = "search" => (DOMAIN wordCache) \subseteq Range(result)

\* C5 amended: after every search that returns a non-empty list the cache
\* holds entries only for words of that list, all read from the connected
\* database; a search that returns the empty list leaves the cache as it was.
C5_CacheWithinNonEmptyResult ==
    /\ [](  (op = "search" /\ result # <<>>) =>
              /\ (DOMAIN wordCache) \subseteq Range(result)
              /\ \A w \in DOMAIN wordCache :
                     /\ dbOpen
                     /\ cacheSource[w] = dbStore
                     /\ wordCache[w] = Table[dbStore][w])
    /\ [][(op' = "search" /\ result' = <<>>) => wordCache' = wordCache]_vars

C5_Witness ==
    /\ op = "search" /\ result # <<>> /\ DOMAIN wordCache # {}
    /\ \E i \in 1..Len(result) : result[i] \notin DOMAIN wordCache

\* C6 as stated: with a database connected, getWordInfo never returns an
\* entry that was cached from a database connected earlier.
C6_NoStaleWordInfo ==
    (op = "getWordInfo" /\ isValid(result) /\ dbOpen) =>
        cacheSource[result.word] = dbStore

----------------------------------------------------------------------------
(* WordEngine::applyPostConditions on its own                               *)

\* Bound on the minValue and maxValue of a LimitByProbabilityOrder condition.
MaxRank == 3

LimitConds(legacy) ==
    {RangeCondition("LimitByProbabilityOrder", lo, hi, lax, legacy) :
        lo \in 0..MaxRank, hi \in 1..MaxRank, lax \in BOOLEAN}

\* One LimitByProbabilityOrder condition with bounds min <= max, the minimum
\* from 0 on, or two such conditions with minimum from 1 on.
LimitLists(legacy) ==
    LET valid == {c \in LimitConds(legacy) : c.minValue <= c.maxValue}
        oneBased == {c \in valid : c.minValue >= 1}
    IN  {<<c>> : c \in valid} \cup {<<c, d>> : c \in oneBased, d \in oneBased}

PostCondLists ==
    UNION {{pre \o l : l \in LimitLists(legacy)} :
              pre \in {<<>>, <<PrefixC>>}, legacy \in BOOLEAN}

\* The word lists a stage can hand on: any words of the lexicon, or the
\* result of an anagram search with a blank.
PostWordLists ==
    {SortStrings(S) : S \in SUBSET FileWords(1)}
    \cup {wordGraphSearch([conditions |-> <<AnagramBlank>>, conjunction |-> TRUE],
                          FileWords(1))}

InitPost ==
    /\ graph = FileWords(1)
    /\ lexiconName = 1
    /\ numAnagramsMap = importLines(FileLines(1),
                            [graph |-> {}, numAnagramsMap |-> <<>>,
                             imported |-> 0]).numAnagramsMap
    /\ dbOpen = FALSE
    /\ dbStore = 0
    /\ wordCache = EmptyCache
    /\ cacheSource = EmptyCache
    /\ op = "input"
    /\ callSpec = NoSpec
    /\ callCaps = FALSE
    /\ stages = <<>>
    /\ wgResult = <<>>
    /\ dbCandidates = NoList
    /\ dbResult = <<>>
    /\ result = <<>>
    /\ postWords \in PostWordLists
    /\ postConds \in PostCondLists
    /\ postTrace = NoTrace
    /\ definitions = NoDefinitions
    /\ link = NoLink
    /\ threads = NoThreads
    /\ stems = NoStems
    /\ stemAlphagrams = NoStems
    /\ quizDb = NoQuizDb
    /\ history = <<>>

\* WordEngine::applyPostConditions (optimizedSpec, wordList)
ApplyPostConditions ==
    /\ op = "input"
    /\ \E o \in PostOutcomes(postConds, postWords, graph) :
        /\ op' = IF o.crashed THEN "crashed" ELSE "applyPostConditions"
        /\ result' = o.list
        /\ postTrace' = o.trace
    /\ UNCHANGED <<graph, lexiconName, numAnagramsMap, dbOpen, dbStore,
                   wordCache, cacheSource, callSpec, callCaps, stages,
                   wgResult, dbCandidates, dbResult, postWords, postConds>>
    /\ UNCHANGED <<definitions, link, threads,
                   stems, stemAlphagrams, quizDb, history>>

NextPost == ApplyPostConditions

SpecPost == InitPost /\ [][NextPost]_vars

----------------------------------------------------------------------------
(* Properties of the probability-order window                               *)

Applied == op = "applyPostConditions"

Limits == {i \in 1..Len(postConds) : postConds[i].type = "LimitByProbabilityOrder"}
StrictLimits == {i \in Limits : ~postConds[i].boolValue}
LegacyMode == \E i \in Limits : postConds[i].legacy

\* The combination count of a word, and of the entry at a 0-based index of
\* the sorted list.
Comb(w) == Combinations(toUpper(w))
CombAt(i) == Comb(postTrace.values[i + 1])

\* The words of the input list the Prefix conditions let through, in order.
PassesFilters(w) ==
    \A i \in 1..Len(postConds) :
        postConds[i].type = "Prefix" =>
            ((postConds[i].stringValue \o toUpper(w)) \in graph) # postConds[i].negated
Surviving == SelectSeq(postWords, PassesFilters)

\* The 1-based bounds the conditions ask for together.
LowerBound == MaxOfSet({postConds[i].minValue : i \in Limits})
UpperBound == MinOfSet({postConds[i].maxValue : i \in Limits})

\* u comes before v: combination count descending, then (unless legacy)
\* alphagram ascending, then word ascending.
Precedes(u, v, legacy) ==
    LET a == toUpper(u)
        b == toUpper(v)
    IN  \/ Comb(a) > Comb(b)
        \/ /\ Comb(a) = Comb(b)
           /\ IF legacy THEN StrLess(a, b)
              ELSE \/ StrLess(getAlphagram(a), getAlphagram(b))
                   \/ getAlphagram(a) = getAlphagram(b) /\ StrLess(a, b)

\* The surviving word that comes first in probability order.
FirstWord ==
    CHOOSE w \in Range(Surviving) :
        \A v \in Range(Surviving) \ {w} : Precedes(w, v, LegacyMode)

NoGroupSplit ==
    \A u \in Range(result), v \in Range(Surviving) \ Range(result) :
        Comb(u) # Comb(v)

\* C7 as stated: whatever the conditions, no group of words with equal
\* combination count is split by the boundary of the returned list.
C7_NeverSplitsTies ==
    (Applied /\ postTrace.indexed /\ postTrace.defined) => NoGroupSplit

\* C7 amended: each end of the window moves outward while the next entry has
\* the combination count of the entry at that end, but not past a strict
\* condition's bound; when every limit condition is lax, no group of words
\* with equal combination count is split by the boundary.
C7_WidensUpToStrictBounds ==
    (Applied /\ postTrace.indexed /\ postTrace.defined) =>
        LET t == postTrace
            n == Len(t.values)
        IN  /\ t.min <= t.workingMin
            /\ \A i \in t.min..t.workingMin : CombAt(i) = CombAt(t.workingMin)
            /\ (t.min > 0 /\ t.min > t.probLimitRangeMin)
                  => CombAt(t.min - 1) # CombAt(t.workingMin)
            /\ t.max >= t.workingMax
            /\ \A i \in t.workingMax..t.max : CombAt(i) = CombAt(t.workingMax)
            /\ (t.max < n - 1 /\ t.max < t.probLimitRangeMax)
                  => CombAt(t.max + 1) # CombAt(t.workingMax)
            /\ StrictLimits = {} => NoGroupSplit

C7_Witness ==
    /\ Applied /\ postTrace.indexed /\ StrictLimits = {}
    /\ postTrace.min < postTrace.workingMin
    /\ postTrace.max > postTrace.workingMax
    /\ Len(result) < Len(Surviving)

\* A single lax LimitByProbabilityOrder (min = 1, max = 1), on words that
\* survive the filters.
FirstOnly ==
    /\ Applied
    /\ Cardinality(Limits) = 1
    /\ \A i \in Limits : /\ postConds[i].boolValue
                         /\ postConds[i].minValue = 1
                         /\ postConds[i].maxValue = 1
    /\ Surviving # <<>>

\* C8 as stated: the list holds the first word of the probability order and,
\* with it, exactly the words that share its combination count and its
\* alphagram.
C8_TiedByCountAndAlphagram ==
    FirstOnly =>
        /\ FirstWord \in Range(result)
        /\ Range(result) =
              {w \in Range(Surviving) :
                  /\ Comb(w) = Comb(FirstWord)
                  /\ getAlphagram(toUpper(w)) = getAlphagram(toUpper(FirstWord))}

\* C8 amended: the list holds the first word of the probability order and,
\* with it, exactly the words that share its combination count, whatever
\* their alphagram; the call has one outcome.
C8_TiedByCount ==
    FirstOnly =>
        /\ postTrace.defined
        /\ FirstWord \in Range(result)
        /\ result[1] = FirstWord
        /\ Range(result) = {w \in Range(Surviving) : Comb(w) = Comb(FirstWord)}
        /\ Len(result) = Cardinality(Range(result))

C8_Witness ==
    /\ FirstOnly /\ ~LegacyMode
    /\ Len(result) >= 2
    /\ \E w \in Range(result) :
           getAlphagram(toUpper(w)) # getAlphagram(toUpper(FirstWord))

C10_ProbabilityOrder ==
    (Applied /\ postTrace.indexed /\ postTrace.defined) =>
        LET sorted == postTrace.values IN
        /\ Range(sorted) = Range(Surviving)
        /\ \A i \in 1..Len(sorted) : \A j \in (i+1)..Len(sorted) :
               Precedes(sorted[i], sorted[j], LegacyMode)
        /\ \A i \in 1..Len(result) : \A j \in (i+1)..Len(result) :
               Precedes(result[i], result[j], LegacyMode)
        /\ \E a \in 0..Len(sorted) : result = SubSeq(sorted, a + 1, a + Len(result))

C10_Witness ==
    /\ Applied /\ LegacyMode
    /\ \E i \in 1..(Len(result) - 1) :
           /\ result[i] = <<"A", "C">>
           /\ result[i + 1] = <<"B", "A">>

----------------------------------------------------------------------------
(* The filters of WordEngine::applyPostConditions on their own              *)

\* The conditions the filter is given: Prefix, Suffix and BelongToGroup
\* conditions, negated or not, and one of a type the stage does not test.
FilterConds ==
    {StringCondition(type, operand, negated) :
        type \in {"Prefix", "Suffix"}, operand \in {<<"C">>},
        negated \in BOOLEAN}
    \cup {StringCondition("BelongToGroup", <<name>>, negated) :
             name \in GroupNames \cup {"No Such Group"}, negated \in BOOLEAN}
    \cup {NumVowelsOne}

FilterCondLists ==
    {<<>>} \cup {<<c>> : c \in FilterConds}
    \cup {<<c, d>> : c \in FilterConds, d \in FilterConds}

InitFilter ==
    /\ graph = FileWords(3)
    /\ lexiconName = 3
    /\ numAnagramsMap = importLines(FileLines(3),
                            [graph |-> {}, numAnagramsMap |-> <<>>,
                             imported |-> 0]).numAnagramsMap
    /\ dbOpen = FALSE
    /\ dbStore = 0
    /\ wordCache = EmptyCache
    /\ cacheSource = EmptyCache
    /\ op = "input"
    /\ callSpec = NoSpec
    /\ callCaps = FALSE
    /\ stages = <<>>
    /\ wgResult = <<>>
    /\ dbCandidates = NoList
    /\ dbResult = <<>>
    /\ result = <<>>
    /\ postWords \in PostWordLists
    /\ postConds \in FilterCondLists
    /\ postTrace = NoTrace
    /\ definitions = NoDefinitions
    /\ link = NoLink
    /\ threads = NoThreads
    /\ stems = NoStems
    /\ stemAlphagrams = NoStems
    /\ quizDb = NoQuizDb
    /\ history = <<>>

NextFilter == ApplyPostConditions

SpecFilter == InitFilter /\ [][NextFilter]_vars

\* The word, in upper case, with an operand before or after it.
Prefixed(c, w) == c.stringValue \o toUpper(w)
Suffixed(c, w) == toUpper(w) \o c.stringValue

\* Membership of the group a condition names, stated on the word graph.
InNamedGroup(c, w) ==
    LET name == c.stringValue[1]
        upper == toUpper(w)
    IN  CASE name = "Hook Words"  -> AllButLast(upper) \in graph
                                     \/ AllButFirst(upper) \in graph
          [] name = "Front Hooks" -> AllButFirst(upper) \in graph
          [] name = "Back Hooks"  -> AllButLast(upper) \in graph
          [] OTHER -> FALSE

\* A condition fails for a word: its test, XOR its negation flag, is false.
FilterFails(c, w, skipUnknown) ==
    CASE c.type = "Prefix" -> (Prefixed(c, w) \in graph) = c.negated
      [] c.type = "Suffix" -> (Suffixed(c, w) \in graph) = c.negated
      [] c.type = "BelongToGroup" ->
            IF skipUnknown /\ c.stringValue[1] \notin GroupNames THEN FALSE
            ELSE InNamedGroup(c, w) = c.negated
      [] OTHER -> FALSE

Rejected(w, skipUnknown) ==
    \E i \in 1..Len(postConds) : FilterFails(postConds[i], w, skipUnknown)

KeptWords(skipUnknown) ==
    LET kept(w) == ~Rejected(w, skipUnknown) IN SelectSeq(postWords, kept)

\* C11 as stated: the stage rejects a word if and only if some Prefix,
\* Suffix or BelongToGroup condition fails for it after XOR with the
\* negation flag, a word being no member of a group that does not exist.
C11_RejectsIffSomeFilterFails == Applied => result = KeptWords(FALSE)

\* C11 amended: as stated, except that a BelongToGroup condition whose group
\* name is not a known search set is passed over, negated or not.
C11_RejectsIffKnownFilterFails == Applied => result = KeptWords(TRUE)

C11_Witness ==
    /\ Applied
    /\ \E i \in 1..Len(postConds) :
           postConds[i].type = "BelongToGroup" /\ postConds[i].negated
           /\ postConds[i].stringValue[1] = "Front Hooks"
    /\ \E i \in 1..Len(postConds) :
           postConds[i].type = "Suffix" /\ postConds[i].negated
    /\ result # <<>> /\ Len(result) < Len(postWords)

----------------------------------------------------------------------------
(* WordEngine::databaseSearch on its own                                    *)

\* Bound on the minValue and maxValue of a numeric condition.
MaxAttribute == 4

NumericTypes == {"Length", "NumVowels", "NumUniqueLetters", "PointValue",
                 "NumAnagrams", "ProbabilityOrder"}

NumericConds ==
    {RangeCondition(type, lo, hi, lax, FALSE) :
        type \in NumericTypes, lo \in 0..MaxAttribute, hi \in 0..MaxAttribute,
        lax \in BOOLEAN}

\* One numeric condition, alone or followed by a second condition.
DbCondLists ==
    {<<c>> : c \in NumericConds}
    \cup {<<c, d>> : c \in NumericConds,
                     d \in {NumVowelsOne, RangeCondition("Length", 2, 2, FALSE, FALSE)}}

DbSpecs == {[conditions |-> l, conjunction |-> j] : l \in DbCondLists, j \in BOOLEAN}

\* The wordList argument: none, or the result of an anagram search with a
\* blank.
DbArguments ==
    {NoList,
     TheList(wordGraphSearch([conditions |-> <<AnagramBlank>>, conjunction |-> TRUE],
                             FileWords(1)))}

InitDb ==
    /\ graph = FileWords(1)
    /\ lexiconName = 1
    /\ numAnagramsMap = importLines(FileLines(1),
                            [graph |-> {}, numAnagramsMap |-> <<>>,
                             imported |-> 0]).numAnagramsMap
    /\ dbOpen = TRUE
    /\ dbStore \in Stores
    /\ wordCache = EmptyCache
    /\ cacheSource = EmptyCache
    /\ op = "input"
    /\ callSpec \in DbSpecs
    /\ callCaps = FALSE
    /\ stages = <<>>
    /\ wgResult = <<>>
    /\ dbCandidates \in DbArguments
    /\ dbResult = <<>>
    /\ result = <<>>
    /\ postWords = <<>>
    /\ postConds = <<>>
    /\ postTrace = NoTrace
    /\ definitions = NoDefinitions
    /\ link = NoLink
    /\ threads = NoThreads
    /\ stems = NoStems
    /\ stemAlphagrams = NoStems
    /\ quizDb = NoQuizDb
    /\ history = <<>>

\* WordEngine::databaseSearch (optimizedSpec, wordList)
DatabaseSearch ==
    /\ op = "input"
    /\ op' = "databaseSearch"
    /\ dbResult' = databaseSearch(callSpec.conditions, dbCandidates, dbOpen, dbStore)
    /\ UNCHANGED <<graph, lexiconName, numAnagramsMap, dbOpen, dbStore,
                   wordCache, cacheSource, callSpec, callCaps, stages,
                   wgResult, dbCandidates, result, postWords, postConds,
                   postTrace>>
    /\ UNCHANGED <<definitions, link, threads,
                   stems, stemAlphagrams, quizDb, history>>

NextDb == DatabaseSearch

SpecDb == InitDb /\ [][NextDb]_vars

Searched == op = "databaseSearch"

\* The value of the column a numeric condition names, in the row of word w.
Column(type, w) ==
    LET row == Table[dbStore][w]
    IN  CASE type = "Length"           -> Len(w)
          [] type = "NumVowels"        -> row.numVowels
          [] type = "NumUniqueLetters" -> row.numUniqueLetters
          [] type = "PointValue"       -> row.pointValue
          [] type = "NumAnagrams"      -> row.numAnagrams
          [] type = "ProbabilityOrder" -> row.probabilityOrder

\* The words of the table among the candidates, when a list is given.
Candidates ==
    {w \in DbWords(dbStore) :
        dbCandidates.given =>
            \E i \in 1..Len(dbCandidates.words) : toUpper(dbCandidates.words[i]) = w}

\* The range form of a condition: column >= min AND column <= max, on the
\* tie-range columns when a ProbabilityOrder condition is lax.
InRange(c, w) ==
    IF c.type = "ProbabilityOrder" /\ c.boolValue
    THEN /\ Table[dbStore][w].maxProbabilityOrder >= c.minValue
         /\ Table[dbStore][w].minProbabilityOrder <= c.maxValue
    ELSE Column(c.type, w) >= c.minValue /\ Column(c.type, w) <= c.maxValue

SelectedRows == {toUpper(dbResult[i]) : i \in 1..Len(dbResult)}

\* C12: a numeric condition with min = max = k selects exactly the rows
\* that the range predicate column >= k AND column <= k selects.
C12_EqualityIsDegenerateRange ==
    (Searched /\ Len(callSpec.conditions) = 1
       /\ callSpec.conditions[1].minValue = callSpec.conditions[1].maxValue) =>
        /\ SelectedRows = {w \in Candidates : InRange(callSpec.conditions[1], w)}
        /\ Len(dbResult) = Cardinality(SelectedRows)

C12_Witness ==
    /\ Searched /\ Len(callSpec.conditions) = 1
    /\ callSpec.conditions[1].type = "PointValue"
    /\ callSpec.conditions[1].minValue = callSpec.conditions[1].maxValue
    /\ dbResult # <<>>
    /\ Len(dbResult) < Cardinality(Candidates)

\* The rows a search with condition c alone selects.
RowsOf(c) ==
    LET found == databaseSearch(<<c>>, dbCandidates, dbOpen, dbStore)
    IN  {toUpper(found[i]) : i \in 1..Len(found)}

\* C13: a strict ProbabilityOrder condition compares the exact rank
\* (min <= probability_order <= max), a lax one the tie-range columns
\* (max_probability_order >= min and min_probability_order <= max); every
\* word the strict form selects, the lax form with the same bounds selects.
C13_StrictRankLaxTieRange ==
    (Searched /\ Len(callSpec.conditions) = 1
       /\ callSpec.conditions[1].type = "ProbabilityOrder") =>
        LET c == callSpec.conditions[1]
            row(w) == Table[dbStore][w]
        IN  /\ ~c.boolValue =>
                 SelectedRows = {w \in Candidates :
                                    /\ c.minValue <= row(w).probabilityOrder
                                    /\ row(w).probabilityOrder <= c.maxValue}
            /\ c.boolValue =>
                 SelectedRows = {w \in Candidates :
                                    /\ row(w).maxProbabilityOrder >= c.minValue
                                    /\ row(w).minProbabilityOrder <= c.maxValue}
            /\ ~c.boolValue =>
                 SelectedRows \subseteq RowsOf([c EXCEPT !.boolValue = TRUE])

C13_Witness ==
    /\ Searched /\ Len(callSpec.conditions) = 1
    /\ callSpec.conditions[1].type = "ProbabilityOrder"
    /\ ~callSpec.conditions[1].boolValue
    /\ SelectedRows # {}
    /\ SelectedRows # RowsOf([callSpec.conditions[1] EXCEPT !.boolValue = TRUE])
    /\ \A w \in DbWords(dbStore) :
           /\ Table[dbStore][w].minProbabilityOrder <= Table[dbStore][w].probabilityOrder
           /\ Table[dbStore][w].probabilityOrder <= Table[dbStore][w].maxProbabilityOrder

\* C14: the conjunction flag is applied to all conditions of the database
\* stage: a disjunctive specification keeps a row that satisfies at least
\* one condition, a conjunctive one only a row that satisfies all of them.
C14_FlagAppliedInDatabaseStage ==
    Searched =>
        LET conds == callSpec.conditions
        IN  SelectedRows =
              {w \in Candidates :
                  IF callSpec.conjunction
                  THEN \A i \in 1..Len(conds) : InRange(conds[i], w)
                  ELSE \E i \in 1..Len(conds) : InRange(conds[i], w)}

----------------------------------------------------------------------------
(* WordEngine::replaceDefinitionLinks                                       *)

\* A definition is a sequence of pieces: plain text, a follow marker
\* {word=pos} or a replace marker <word=pos>.
Lit(chars) == <<"text", chars>>
FollowMarker(word, pos) == <<"follow", word, pos>>
ReplaceMarker(word, pos) == <<"replace", word, pos>>

\* QRegExp::indexIn (definition, 0): the place of the first marker of a
\* kind, 0 when there is none.
indexIn(kind, definition) ==
    IF \E i \in 1..Len(definition) : definition[i][1] = kind
    THEN CHOOSE i \in 1..Len(definition) :
            /\ definition[i][1] = kind
            /\ \A j \in 1..(i - 1) : definition[j][1] # kind
    ELSE 0

\* WordEngine::getSubDefinition with no database open: the text held for
\* the word and the part of speech, empty when there is none.
getSubDefinition(word, pos, defs) ==
    IF <<word, pos>> \in DOMAIN defs THEN defs[<<word, pos>>] ELSE <<>>

\* A replacement that looks the word up at depth 0 as at any other depth.
Replacement_LooksUpAtDepthZero(kind, word, pos, maxDepth, useFollow, subdef) ==
    IF subdef = <<>>
    THEN (IF useFollow THEN <<Lit(word)>> ELSE <<Lit(toUpper(word))>>)
    ELSE IF useFollow
    THEN (IF kind = "follow"
          THEN <<Lit(word), Lit(<<" ", "(">>)>> \o subdef \o <<Lit(<<")">>)>>
          ELSE subdef)
    ELSE <<Lit(toUpper(word)), Lit(<<",", " ">>)>> \o subdef

\* A replacement that puts the sub-definition alone in the place of a
\* replace marker, whatever useFollow is.
Replacement_ReplaceAlone(kind, word, pos, maxDepth, useFollow, subdef) ==
    IF maxDepth = 0 THEN <<Lit(word)>>
    ELSE IF subdef = <<>>
    THEN (IF useFollow THEN <<Lit(word)>> ELSE <<Lit(toUpper(word))>>)
    ELSE IF kind = "follow"
    THEN <<Lit(word), Lit(<<" ", "(">>)>> \o subdef \o <<Lit(<<")">>)>>
    ELSE subdef

\* The text put in the place of the marker.
Replacement(kind, word, pos, maxDepth, useFollow, subdef) ==
    IF maxDepth = 0 THEN <<Lit(word)>>
    ELSE IF subdef = <<>>
    THEN (IF useFollow THEN <<Lit(word)>> ELSE <<Lit(toUpper(word))>>)
    ELSE IF useFollow
    THEN (IF kind = "follow"
          THEN <<Lit(word), Lit(<<" ", "(">>)>> \o subdef \o <<Lit(<<")">>)>>
          ELSE subdef)
    ELSE <<Lit(toUpper(word)), Lit(<<",", " ">>)>> \o subdef

\* A call that passes its own maxDepth on to the next call.
NextDepth_NotLowered(maxDepth) == maxDepth

\* "maxDepth - 1", the depth the next call is given.
NextDepth(maxDepth) == maxDepth - 1

\* modified.replace (index, matchedLength, replacement), and then either the
\* return of modified or the arguments of the next call.
Substitute(call, kind, index, useFollow, replacement) ==
    [call EXCEPT
        !.before = call.definition,
        !.definition = SubSeq(call.definition, 1, index - 1) \o replacement
                       \o SubSeq(call.definition, index + 1, Len(call.definition)),
        !.matched = kind,
        !.index = index,
        !.replacement = replacement,
        !.depthAtPass = call.maxDepth,
        !.followAtPass = useFollow,
        !.useFollow = useFollow,
        !.followSeen = call.followSeen \/ kind = "follow",
        !.substitutions = call.substitutions + 1,
        !.maxDepth = IF call.maxDepth = 0 THEN 0 ELSE NextDepth(call.maxDepth),
        !.returned = (call.maxDepth = 0)]

\* The marker found at index, replaced.
Matched(call, kind, index, useFollow, defs) ==
    Substitute(call, kind, index, useFollow,
        Replacement(kind, call.definition[index][2], call.definition[index][3],
            call.maxDepth, useFollow,
            getSubDefinition(toUpper(call.definition[index][2]),
                             call.definition[index][3], defs)))

\* A call in which the mode is that of the marker matched, not of the chain.
replaceDefinitionLinks_ModePerMarker(call, defs) ==
    IF indexIn("follow", call.definition) > 0
    THEN Matched(call, "follow", indexIn("follow", call.definition), TRUE, defs)
    ELSE IF indexIn("replace", call.definition) > 0
    THEN Matched(call, "replace", indexIn("replace", call.definition),
                 FALSE, defs)
    ELSE [call EXCEPT !.before = call.definition, !.matched = "none",
                      !.depthAtPass = call.maxDepth, !.returned = TRUE]

\* One call of replaceDefinitionLinks (definition, maxDepth, useFollow): the
\* follow marker is looked for first, then the replace marker.
replaceDefinitionLinks(call, defs) ==
    IF indexIn("follow", call.definition) > 0
    THEN Matched(call, "follow", indexIn("follow", call.definition), TRUE, defs)
    ELSE IF indexIn("replace", call.definition) > 0
    THEN Matched(call, "replace", indexIn("replace", call.definition),
                 call.useFollow, defs)
    ELSE [call EXCEPT !.before = call.definition, !.matched = "none",
                      !.depthAtPass = call.maxDepth, !.returned = TRUE]

\* Bound on the maxDepth a call is entered with.
MaxLinkDepth == 3

LinkWordAB == <<"a", "b">>
LinkWordBA == <<"b", "a">>

LinkPieces ==
    {Lit(<<"x">>), FollowMarker(LinkWordAB, "n"), ReplaceMarker(LinkWordAB, "n"),
     ReplaceMarker(LinkWordBA, "n"), FollowMarker(LinkWordBA, "v")}

LinkTexts ==
    {<<>>} \cup {<<a>> : a \in LinkPieces}
    \cup {<<a, b>> : a \in LinkPieces, b \in LinkPieces}

\* The definition data sets: none; a definition that refers to itself; two
\* that refer to each other; two without a cycle.
DefinitionSets ==
    {NoDefinitions,
     (<<<<"A","B">>, "n">> :> <<Lit(<<"x">>), FollowMarker(LinkWordAB, "n")>>),
     (<<<<"A","B">>, "n">> :> <<ReplaceMarker(LinkWordBA, "n")>>)
        @@ (<<<<"B","A">>, "n">> :> <<FollowMarker(LinkWordAB, "n"), Lit(<<"y">>)>>),
     (<<<<"A","B">>, "n">> :> <<Lit(<<"x">>)>>)
        @@ (<<<<"B","A">>, "n">> :> <<ReplaceMarker(LinkWordAB, "n")>>)}

\* The arguments of a first call.
FirstCall(definition, maxDepth, useFollow) ==
    [definition |-> definition, maxDepth |-> maxDepth, useFollow |-> useFollow,
     returned |-> FALSE, substitutions |-> 0, followSeen |-> FALSE,
     firstDefinition |-> definition, firstDepth |-> maxDepth,
     before |-> definition, matched |-> "none", index |-> 0,
     replacement |-> <<>>, depthAtPass |-> maxDepth, followAtPass |-> useFollow]

InitLinks ==
    /\ graph = {}
    /\ lexiconName = 0
    /\ numAnagramsMap = <<>>
    /\ dbOpen = FALSE
    /\ dbStore = 0
    /\ wordCache = EmptyCache
    /\ cacheSource = EmptyCache
    /\ op = "input"
    /\ callSpec = NoSpec
    /\ callCaps = FALSE
    /\ stages = <<>>
    /\ wgResult = <<>>
    /\ dbCandidates = NoList
    /\ dbResult = <<>>
    /\ result = <<>>
    /\ postWords = <<>>
    /\ postConds = <<>>
    /\ postTrace = NoTrace
    /\ definitions \in DefinitionSets
    /\ link \in {FirstCall(d, m, f) :
                    d \in LinkTexts, m \in 0..MaxLinkDepth, f \in BOOLEAN}
    /\ threads = NoThreads
    /\ stems = NoStems
    /\ stemAlphagrams = NoStems
    /\ quizDb = NoQuizDb
    /\ history = <<>>

\* One call of WordEngine::replaceDefinitionLinks in the chain of calls.
ReplaceDefinitionLinks ==
    /\ ~link.returned
    /\ link' = replaceDefinitionLinks(link, definitions)
    /\ op' = "replaceDefinitionLinks"
    /\ result' = IF link'.returned THEN link'.definition ELSE result
    /\ UNCHANGED <<graph, lexiconName, numAnagramsMap, dbOpen, dbStore,
                   wordCache, cacheSource, callSpec, callCaps, stages,
                   wgResult, dbCandidates, dbResult, postWords, postConds,
                   postTrace, definitions, threads,
                   stems, stemAlphagrams, quizDb, history>>

NextLinks == ReplaceDefinitionLinks

SpecLinks == InitLinks /\ [][NextLinks]_vars

\* The calls of a chain are all made: nothing but the call itself can
\* keep the next call from starting.
SpecLinksFair == SpecLinks /\ WF_vars(NextLinks)

\* C15: for every maxDepth >= 0 and every definition data set, cyclic ones
\* included, the chain of calls makes at most maxDepth + 1 substitutions and
\* returns.
C15_TerminatesWithinDepth ==
    /\ [](link.substitutions <= link.firstDepth + 1)
    /\ <>(link.returned)

C15_Witness ==
    /\ link.returned
    /\ link.firstDepth >= 2
    /\ link.substitutions = link.firstDepth + 1
    /\ \E k \in DOMAIN definitions :
           \E i \in 1..Len(definitions[k]) :
               /\ definitions[k][i][1] = "follow"
               /\ toUpper(definitions[k][i][2]) = k[1]

\* The last call replaced a marker: the marker's word and part of speech,
\* the sub-definition held for them, and the forms a replacement can take.
Replaced == op = "replaceDefinitionLinks" /\ link.matched # "none"
MarkerWord == link.before[link.index][2]
MarkerPos == link.before[link.index][3]
SubDefinition ==
    IF <<toUpper(MarkerWord), MarkerPos>> \in DOMAIN definitions
    THEN definitions[<<toUpper(MarkerWord), MarkerPos>>]
    ELSE <<>>
WordAsWritten == <<Lit(MarkerWord)>>
UpperWord == <<Lit(toUpper(MarkerWord))>>
WordAndSubDefinition ==
    <<Lit(MarkerWord), Lit(<<" ", "(">>)>> \o SubDefinition \o <<Lit(<<")">>)>>
UpperWordCommaSubDefinition ==
    <<Lit(toUpper(MarkerWord)), Lit(<<",", " ">>)>> \o SubDefinition

\* C16 as stated: with remaining depth > 0 a follow marker expands to
\* `word (sub-definition)` and a replace marker to the sub-definition alone,
\* or to the uppercased word when there is no sub-definition.
C16_ReplaceGivesSubDefinitionAlone ==
    (Replaced /\ link.depthAtPass > 0) =>
        /\ (link.matched = "follow" /\ SubDefinition # <<>>)
              => link.replacement = WordAndSubDefinition
        /\ link.matched = "replace"
              => link.replacement =
                    (IF SubDefinition = <<>> THEN UpperWord ELSE SubDefinition)

\* C16 amended: with remaining depth > 0 a follow marker expands to
\* `word (sub-definition)`, or to the word as written when there is no
\* sub-definition; a replace marker expands, when no follow marker has been
\* matched and useFollow was not passed in, to `UPPERWORD, sub-definition`,
\* or to the uppercased word when there is no sub-definition, and otherwise
\* to the sub-definition alone, or to the word as written when there is none.
C16_ExpansionByMarkerAndMode ==
    (Replaced /\ link.depthAtPass > 0) =>
        /\ link.matched = "follow" =>
              link.replacement =
                 (IF SubDefinition = <<>> THEN WordAsWritten
                  ELSE WordAndSubDefinition)
        /\ (link.matched = "replace" /\ ~link.followAtPass) =>
              link.replacement =
                 (IF SubDefinition = <<>> THEN UpperWord
                  ELSE UpperWordCommaSubDefinition)
        /\ (link.matched = "replace" /\ link.followAtPass) =>
              link.replacement =
                 (IF SubDefinition = <<>> THEN WordAsWritten
                  ELSE SubDefinition)
        /\ link.definition =
              SubSeq(link.before, 1, link.index - 1) \o link.replacement
              \o SubSeq(link.before, link.index + 1, Len(link.before))

C16_Witness ==
    /\ Replaced /\ link.depthAtPass > 0
    /\ link.matched = "replace" /\ ~link.followAtPass
    /\ SubDefinition # <<>>
    /\ link.replacement = UpperWordCommaSubDefinition

\* C17: the follow mode is sticky along a chain of calls: once a call has
\* matched a follow marker, useFollow is true in every later call and never
\* goes back to false, and every later substitution, one for a replace
\* marker included, is in follow style (the word as written, the
\* word with the sub-definition in parentheses, or the sub-definition alone),
\* never `UPPERWORD, sub-definition`.
C17_FollowModeIsSticky ==
    /\ [][link.useFollow => link'.useFollow]_vars
    /\ [](link.followSeen => link.useFollow)
    /\ []((Replaced /\ link.followSeen) =>
            /\ link.followAtPass
            /\ link.replacement \in
                  {WordAsWritten, WordAndSubDefinition, SubDefinition}
            /\ link.replacement # UpperWordCommaSubDefinition
            /\ link.replacement # UpperWord)

C17_Witness ==
    /\ Replaced /\ link.followSeen /\ link.depthAtPass > 0
    /\ ~link.firstDepth = link.depthAtPass
    /\ link.matched = "replace"
    /\ SubDefinition # <<>>
    /\ link.replacement = SubDefinition

\* C18: entered with maxDepth 0 on a text that holds a marker, the call puts
\* the marker's word, exactly as written, in the marker's place and returns
\* with no further call; on a text that holds no marker it returns the text
\* unchanged, whatever maxDepth is.
C18_DepthZeroAndNoMarker ==
    /\ (Replaced /\ link.depthAtPass = 0) =>
          /\ link.returned
          /\ link.replacement = WordAsWritten
          /\ link.definition =
                SubSeq(link.before, 1, link.index - 1) \o WordAsWritten
                \o SubSeq(link.before, link.index + 1, Len(link.before))
          /\ result = link.definition
    /\ (op = "replaceDefinitionLinks" /\ link.matched = "none") =>
          /\ link.returned
          /\ \A i \in 1..Len(link.before) : link.before[i][1] = "text"
          /\ link.definition = link.before
          /\ result = link.before
    /\ (op = "replaceDefinitionLinks"
          /\ \A i \in 1..Len(link.before) : link.before[i][1] = "text") =>
          link.matched = "none"

C18_Witness ==
    /\ Replaced /\ link.depthAtPass = 0 /\ link.firstDepth = 0
    /\ link.matched = "replace"
    /\ SubDefinition # <<>>
    /\ link.returned


----------------------------------------------------------------------------
(* importTextFile with a reader on another thread                           *)

\* WordEngine holds no lock: importTextFile works on the member graph itself,
\* one line of the file per turn of its while loop, and isAcceptable and
\* search read that same member.  A read that overlaps graph.addWord returns
\* what the graph held before or after that addWord; both are steps here.

LoadFiles == {1, 2, 3}
ReaderWords == {<<"A", "B">>, <<"B", "A">>, <<"A", "B", "C">>}
ReaderSpecs == {[conditions |-> <<PatternAny>>, conjunction |-> TRUE],
                [conditions |-> <<AnagramBlank>>, conjunction |-> TRUE]}

\* The locals of importTextFile before file.open, and a reader yet to call.
LoaderIdle == [pc |-> "idle", file |-> 0, line |-> 0, imported |-> 0,
               before |-> {}]
ReaderIdle == [call |-> "none", during |-> FALSE, before |-> {},
               word |-> <<>>, spec |-> NoSpec, answer |-> FALSE,
               found |-> <<>>]

\* What an engine holds after importTextFile of file f from empty.
Loaded(f) ==
    importLines(FileLines(f), [graph |-> {}, numAnagramsMap |-> <<>>,
                               imported |-> 0])

InitLoad ==
    /\ \E f \in {0, 2} :
        /\ graph = IF f = 0 THEN {} ELSE Loaded(f).graph
        /\ numAnagramsMap = IF f = 0 THEN <<>> ELSE Loaded(f).numAnagramsMap
        /\ lexiconName = f
    /\ dbOpen = FALSE
    /\ dbStore = 0
    /\ wordCache = EmptyCache
    /\ cacheSource = EmptyCache
    /\ op = "init"
    /\ callSpec = NoSpec
    /\ callCaps = FALSE
    /\ stages = <<>>
    /\ wgResult = <<>>
    /\ dbCandidates = NoList
    /\ dbResult = <<>>
    /\ result = <<>>
    /\ postWords = <<>>
    /\ postConds = <<>>
    /\ postTrace = NoTrace
    /\ definitions = NoDefinitions
    /\ link = NoLink
    /\ threads = [loader |-> LoaderIdle, reader |-> ReaderIdle]
    /\ stems = NoStems
    /\ stemAlphagrams = NoStems
    /\ quizDb = NoQuizDb
    /\ history = <<>>

\* importTextFile up to its while loop: the file is opened.
OpenFile(f) ==
    /\ threads.loader.pc \in {"idle", "returned"}
    /\ threads' = [threads EXCEPT !.loader =
                      [pc |-> "loading", file |-> f, line |-> 0,
                       imported |-> 0, before |-> graph]]
    /\ UNCHANGED <<graph, lexiconName, numAnagramsMap, dbOpen, dbStore,
                   wordCache, cacheSource, op, callSpec, callCaps, stages,
                   wgResult, dbCandidates, dbResult, result, postWords,
                   postConds, postTrace, definitions, link,
                   stems, stemAlphagrams, quizDb, history>>

\* One turn of the while loop of importTextFile: one line of the file.
ImportLine ==
    /\ threads.loader.pc = "loading"
    /\ threads.loader.line < Len(FileLines(threads.loader.file))
    /\ LET me  == threads.loader
           end == importLines(<<FileLines(me.file)[me.line + 1]>>,
                      [graph |-> graph, numAnagramsMap |-> numAnagramsMap,
                       imported |-> me.imported])
       IN  /\ graph' = end.graph
           /\ numAnagramsMap' = end.numAnagramsMap
           /\ threads' = [threads EXCEPT !.loader.line = me.line + 1,
                                         !.loader.imported = end.imported]
    /\ UNCHANGED <<lexiconName, dbOpen, dbStore, wordCache, cacheSource, op,
                   callSpec, callCaps, stages, wgResult, dbCandidates,
                   dbResult, result, postWords, postConds, postTrace,
                   definitions, link,
                   stems, stemAlphagrams, quizDb, history>>

\* importTextFile after its while loop: readLine found no further line.
ImportReturn ==
    /\ threads.loader.pc = "loading"
    /\ threads.loader.line = Len(FileLines(threads.loader.file))
    /\ lexiconName' = threads.loader.file
    /\ result' = threads.loader.imported
    /\ op' = "importTextFile"
    /\ threads' = [threads EXCEPT !.loader.pc = "returned"]
    /\ Quiet
    /\ UNCHANGED <<graph, numAnagramsMap, dbOpen, dbStore, wordCache,
                   cacheSource, definitions, link,
                   stems, stemAlphagrams, quizDb, history>>

\* WordEngine::isAcceptable called by the reader.
ReaderIsAcceptable(word) ==
    /\ threads' = [threads EXCEPT !.reader =
                      [call |-> "isAcceptable",
                       during |-> threads.loader.pc = "loading",
                       before |-> threads.loader.before,
                       word |-> word, spec |-> NoSpec,
                       answer |-> isAcceptable(word, graph),
                       found |-> <<>>]]
    /\ result' = isAcceptable(word, graph)
    /\ op' = "isAcceptable"
    /\ Quiet
    /\ UNCHANGED <<graph, lexiconName, numAnagramsMap, dbOpen, dbStore,
                   wordCache, cacheSource, definitions, link,
                   stems, stemAlphagrams, quizDb, history>>

\* WordEngine::search called by the reader.
ReaderSearch(spec) ==
    /\ \E run \in searchRuns(spec, FALSE, graph, dbOpen, dbStore) :
        /\ ~run.crashed
        /\ threads' = [threads EXCEPT !.reader =
                          [call |-> "search",
                           during |-> threads.loader.pc = "loading",
                           before |-> threads.loader.before,
                           word |-> <<>>, spec |-> spec, answer |-> FALSE,
                           found |-> run.result]]
        /\ op' = "search"
        /\ callSpec' = spec
        /\ callCaps' = FALSE
        /\ stages' = run.stages
        /\ wgResult' = run.wgResult
        /\ dbCandidates' = run.dbCandidates
        /\ dbResult' = run.dbResult
        /\ postWords' = run.postWords
        /\ postConds' = <<>>
        /\ postTrace' = run.postTrace
        /\ result' = run.result
        /\ wordCache' = IF run.atEnd
                        THEN cacheAfterSearch(wordCache, run.result, dbOpen, dbStore)
                        ELSE wordCache
        /\ cacheSource' = IF run.atEnd
                          THEN sourceAfterSearch(cacheSource, run.result, dbOpen, dbStore)
                          ELSE cacheSource
    /\ UNCHANGED <<graph, lexiconName, numAnagramsMap, dbOpen, dbStore,
                   definitions, link,
                   stems, stemAlphagrams, quizDb, history>>

NextLoad ==
    \/ \E f \in LoadFiles : OpenFile(f)
    \/ ImportLine
    \/ ImportReturn
    \/ \E word \in ReaderWords : ReaderIsAcceptable(word)
    \/ \E spec \in ReaderSpecs : ReaderSearch(spec)

SpecLoad == InitLoad /\ [][NextLoad]_vars

\* The reader's last call read the graph between the open and the return of
\* an importTextFile.
ReadDuringLoad == threads.reader.call # "none" /\ threads.reader.during

\* C19: a reader that calls isAcceptable or search while importTextFile is
\* loading sees none of the words of the file: its answer is the one the
\* graph held before the load gives.
C19_LoadInvisibleUntilDone ==
    ReadDuringLoad =>
        /\ threads.reader.call = "isAcceptable" =>
              threads.reader.answer =
                  isAcceptable(threads.reader.word, threads.reader.before)
        /\ threads.reader.call = "search" =>
              threads.reader.found =
                  wordGraphSearch(threads.reader.spec, threads.reader.before)


----------------------------------------------------------------------------
(* Two searches at once on one WordEngine                                   *)

\* wordCache is a member QMap and search holds no lock around
\* "clearCache(); addToCache (resultList);".  The steps of a searcher are
\* the stages of search up to the cache, clearCache, query.exec() of
\* addToCache, one turn of its "while (query.next())" loop, and the return.
\* The rows come in any order: the SELECT has no ORDER BY.

Searchers == {1, 2}

LengthThree == RangeCondition("Length", 3, 3, FALSE, FALSE)
PatternNone == StringCondition("PatternMatch", <<"C", "?">>, FALSE)

SearcherSpecs == {[conditions |-> <<PatternAny>>, conjunction |-> TRUE],
                  [conditions |-> <<LengthThree>>, conjunction |-> TRUE],
                  [conditions |-> <<PatternNone>>, conjunction |-> TRUE]}

\* The locals of a search that has not been called yet.
SearcherIdle == [pc |-> "idle", spec |-> NoSpec, resultList |-> <<>>,
                 rows |-> {}]

\* The rows query.exec() of addToCache selects.
selectedForCache(words, open, k) ==
    IF words = <<>> \/ ~open THEN {} ELSE DbWords(k) \cap Range(words)

InitCache ==
    /\ graph = FileWords(1)
    /\ lexiconName = 1
    /\ numAnagramsMap = Loaded(1).numAnagramsMap
    /\ dbOpen = TRUE
    /\ dbStore = 1
    /\ wordCache = EmptyCache
    /\ cacheSource = EmptyCache
    /\ op = "init"
    /\ callSpec = NoSpec
    /\ callCaps = FALSE
    /\ stages = <<>>
    /\ wgResult = <<>>
    /\ dbCandidates = NoList
    /\ dbResult = <<>>
    /\ result = <<>>
    /\ postWords = <<>>
    /\ postConds = <<>>
    /\ postTrace = NoTrace
    /\ definitions = NoDefinitions
    /\ link = NoLink
    /\ threads = [t \in Searchers |-> SearcherIdle]
    /\ stems = NoStems
    /\ stemAlphagrams = NoStems
    /\ quizDb = NoQuizDb
    /\ history = <<>>

\* search up to the conversion to capitals: resultList is computed.
SearcherStages(t, spec) ==
    /\ threads[t].pc = "idle"
    /\ \E run \in searchRuns(spec, FALSE, graph, dbOpen, dbStore) :
        /\ ~run.crashed
        /\ threads' = [threads EXCEPT ![t] =
                          [pc |-> IF run.atEnd /\ run.result # <<>>
                                  THEN "searched" ELSE "returning",
                           spec |-> spec, resultList |-> run.result,
                           rows |-> {}]]
        /\ callSpec' = spec
        /\ callCaps' = FALSE
        /\ stages' = run.stages
        /\ wgResult' = run.wgResult
        /\ dbCandidates' = run.dbCandidates
        /\ dbResult' = run.dbResult
        /\ postWords' = run.postWords
        /\ postConds' = <<>>
        /\ postTrace' = run.postTrace
    /\ UNCHANGED <<graph, lexiconName, numAnagramsMap, dbOpen, dbStore,
                   wordCache, cacheSource, op, result, definitions, link,
                   stems, stemAlphagrams, quizDb, history>>

\* "clearCache();" in search
SearcherClearCache(t) ==
    /\ threads[t].pc = "searched"
    /\ wordCache' = EmptyCache
    /\ cacheSource' = EmptyCache
    /\ threads' = [threads EXCEPT ![t].pc = "cleared"]
    /\ UNCHANGED <<graph, lexiconName, numAnagramsMap, dbOpen, dbStore, op,
                   callSpec, callCaps, stages, wgResult, dbCandidates,
                   dbResult, result, postWords, postConds, postTrace,
                   definitions, link,
                   stems, stemAlphagrams, quizDb, history>>

\* addToCache up to query.exec()
SearcherQuery(t) ==
    /\ threads[t].pc = "cleared"
    /\ threads' = [threads EXCEPT
                      ![t].pc = "adding",
                      ![t].rows = selectedForCache(threads[t].resultList,
                                                   dbOpen, dbStore)]
    /\ UNCHANGED <<graph, lexiconName, numAnagramsMap, dbOpen, dbStore,
                   wordCache, cacheSource, op, callSpec, callCaps, stages,
                   wgResult, dbCandidates, dbResult, result, postWords,
                   postConds, postTrace, definitions, link,
                   stems, stemAlphagrams, quizDb, history>>

\* One turn of "while (query.next())": wordCache[info.word] = info.
SearcherAddRow(t) ==
    /\ threads[t].pc = "adding"
    /\ \E w \in threads[t].rows :
        /\ wordCache' = addToCache(wordCache, <<w>>, dbOpen, dbStore)
        /\ cacheSource' = addToSource(cacheSource, <<w>>, dbOpen, dbStore)
        /\ threads' = [threads EXCEPT ![t].rows = threads[t].rows \ {w}]
    /\ UNCHANGED <<graph, lexiconName, numAnagramsMap, dbOpen, dbStore, op,
                   callSpec, callCaps, stages, wgResult, dbCandidates,
                   dbResult, result, postWords, postConds, postTrace,
                   definitions, link,
                   stems, stemAlphagrams, quizDb, history>>

\* "return resultList;"
SearcherReturn(t) ==
    /\ \/ threads[t].pc = "returning"
       \/ threads[t].pc = "adding" /\ threads[t].rows = {}
    /\ threads' = [threads EXCEPT ![t].pc = "returned"]
    /\ result' = threads[t].resultList
    /\ op' = "search"
    /\ UNCHANGED <<graph, lexiconName, numAnagramsMap, dbOpen, dbStore,
                   wordCache, cacheSource, callSpec, callCaps, stages,
                   wgResult, dbCandidates, dbResult, postWords, postConds,
                   postTrace, definitions, link,
                   stems, stemAlphagrams, quizDb, history>>

NextCache ==
    \/ \E t \in Searchers, spec \in SearcherSpecs : SearcherStages(t, spec)
    \/ \E t \in Searchers : SearcherClearCache(t)
    \/ \E t \in Searchers : SearcherQuery(t)
    \/ \E t \in Searchers : SearcherAddRow(t)
    \/ \E t \in Searchers : SearcherReturn(t)

SpecCache == InitCache /\ [][NextCache]_vars

\* Both searches have returned a list that is not empty.
BothReturned ==
    \A t \in Searchers : /\ threads[t].pc = "returned"
                         /\ threads[t].resultList # <<>>

\* The cache a search leaves when it runs alone.
CacheOf(t) == cacheAfterSearch(EmptyCache, threads[t].resultList, dbOpen, dbStore)

\* C20: once two searches that ran at once have both returned, the cache
\* holds the attributes of the result set of exactly one of them.
C20_CacheHoldsOneResultSet ==
    BothReturned => \E t \in Searchers : wordCache = CacheOf(t)


----------------------------------------------------------------------------
(* WordEngine::importStems                                                  *)

\* The word with a letters A, then b letters B, then c letters C.
Letters(a, b, c) ==
    [i \in 1..(a + b + c) |->
        IF i <= a THEN "A" ELSE IF i <= a + b THEN "B" ELSE "C"]

Reversed(w) == [i \in 1..Len(w) |-> w[Len(w) + 1 - i]]

\* The lines of the stem files the model imports, already simplified and
\* cut at the first space.  A line that starts with # is a comment.
StemLines(f) ==
    IF f = 1
    THEN << <<"#">>, Reversed(Letters(2, 2, 2)), Letters(1, 1, 1),
            Letters(3, 3, 0), Reversed(Letters(2, 2, 2)),
            <<"H", "U", "N", "T", "E", "R">> >>
    ELSE IF f = 2
    THEN << <<>>, Letters(0, 3, 3), Letters(4, 3, 0),
            <<"a", "a", "b", "b", "c", "c">>,
            <<"D", "E", "A", "E", "A", "E">> >>
    ELSE IF f = 3
    THEN << Letters(3, 2, 2), Letters(2, 2, 2), Reversed(Letters(1, 3, 3)) >>
    ELSE << <<>>, <<"#">> >>

StemFiles == {1, 2, 3, 4}

\* "if (!line.length() || (line.at (0) == '#')) continue;"
SkippedLine(line) == line = <<>> \/ line[1] = "#"

\* The while loop of importStems over the lines that are left; state holds
\* the locals words, alphagrams, imported and length.
RECURSIVE importStemLines(_, _)
importStemLines(lines, state) ==
    IF lines = <<>> THEN state
    ELSE LET word   == Head(lines)
             length == IF state.length = 0 THEN Len(word) ELSE state.length
         IN  IF SkippedLine(word)
             THEN importStemLines(Tail(lines), state)
             ELSE IF length # Len(word)
             THEN importStemLines(Tail(lines), [state EXCEPT !.length = length])
             ELSE importStemLines(Tail(lines),
                     [words      |-> Append(state.words, word),
                      alphagrams |-> state.alphagrams \cup {getAlphagram(word)},
                      imported   |-> state.imported + 1,
                      length     |-> length])

\* The locals of importStems when its loop has read the whole of file f.
StemLocals(f) ==
    importStemLines(StemLines(f),
        [words |-> <<>>, alphagrams |-> {}, imported |-> 0, length |-> 0])

\* "stems.insert", or "it->second += words" when the length is there.
mergeStems_ReplacesList(map, length, words) ==
    [l \in (DOMAIN map) \cup {length} |-> IF l = length THEN words ELSE map[l]]

mergeStems(map, length, words) ==
    [l \in (DOMAIN map) \cup {length} |->
        IF l # length THEN map[l]
        ELSE IF length \in DOMAIN map THEN map[length] \o words ELSE words]

\* "stemAlphagrams.insert", or the loop of "(it->second).insert (*sit)".
mergeStemAlphagrams(map, length, alphagrams) ==
    [l \in (DOMAIN map) \cup {length} |->
        IF l # length THEN map[l]
        ELSE IF length \in DOMAIN map THEN map[length] \cup alphagrams
             ELSE alphagrams]

\* Bound on the number of stem files imported one after the other.
MaxStemLoads == 3

InitStems ==
    /\ graph = {}
    /\ lexiconName = 0
    /\ numAnagramsMap = <<>>
    /\ dbOpen = FALSE
    /\ dbStore = 0
    /\ wordCache = EmptyCache
    /\ cacheSource = EmptyCache
    /\ op = "init"
    /\ callSpec = NoSpec
    /\ callCaps = FALSE
    /\ stages = <<>>
    /\ wgResult = <<>>
    /\ dbCandidates = NoList
    /\ dbResult = <<>>
    /\ result = <<>>
    /\ postWords = <<>>
    /\ postConds = <<>>
    /\ postTrace = NoTrace
    /\ definitions = NoDefinitions
    /\ link = NoLink
    /\ threads = NoThreads
    /\ stems = NoStems
    /\ stemAlphagrams = NoStems
    /\ quizDb = NoQuizDb
    /\ history = <<>>

\* WordEngine::importStems: opened is what file.open returns.
ImportStems(f, opened) ==
    /\ Len(history) < MaxStemLoads
    /\ LET end == StemLocals(f)
       IN  /\ stems' = IF opened THEN mergeStems(stems, end.length, end.words)
                       ELSE stems
           /\ stemAlphagrams' =
                 IF opened
                 THEN mergeStemAlphagrams(stemAlphagrams, end.length,
                                          end.alphagrams)
                 ELSE stemAlphagrams
           /\ result' = IF opened THEN end.imported ELSE -1
    /\ history' = IF opened THEN Append(history, f) ELSE history
    /\ op' = "importStems"
    /\ Quiet
    /\ UNCHANGED <<graph, lexiconName, numAnagramsMap, dbOpen, dbStore,
                   wordCache, cacheSource, definitions, link, threads, quizDb>>


NextStems == \E f \in StemFiles, opened \in BOOLEAN : ImportStems(f, opened)

SpecStems == InitStems /\ [][NextStems]_vars

\* The entries of file f: its lines that are neither empty nor a comment.
ValidEntries(f) == SelectSeq(StemLines(f), LAMBDA line : ~SkippedLine(line))

\* The length of the first valid entry of file f; 0 when it has none.
FirstLength(f) ==
    IF ValidEntries(f) = <<>> THEN 0 ELSE Len(ValidEntries(f)[1])

\* The entries of file f that are as long as its first valid entry.
KeptEntries(f) ==
    SelectSeq(ValidEntries(f), LAMBDA e : Len(e) = FirstLength(f))

\* The entries of length L of the files of a list whose first valid entry
\* has length L, in the order of the list.
RECURSIVE EntriesOfLength(_, _)
EntriesOfLength(files, L) ==
    IF files = <<>> THEN <<>>
    ELSE (IF FirstLength(Head(files)) = L THEN KeptEntries(Head(files))
          ELSE <<>>) \o EntriesOfLength(Tail(files), L)

\* C21: the stems stored for a length are the entries of that length of the
\* files imported so far whose first valid entry has that length, in load
\* order; the alphagrams stored are those of these entries; an import
\* returns the number of entries it kept.
C21_StemsAreMergedByLength ==
    /\ DOMAIN stems = {FirstLength(history[i]) : i \in 1..Len(history)}
    /\ DOMAIN stemAlphagrams = DOMAIN stems
    /\ \A L \in DOMAIN stems :
          /\ stems[L] = EntriesOfLength(history, L)
          /\ stemAlphagrams[L] =
                {getAlphagram(stems[L][i]) : i \in 1..Len(stems[L])}
          /\ \A i \in 1..Len(stems[L]) : Len(stems[L][i]) = L
    /\ (op = "importStems" /\ result # -1) =>
          result = Len(KeptEntries(history[Len(history)]))

\* Two files of six-letter stems were imported one after the other and an
\* entry of another length was discarded.
C21_Witness ==
    /\ op = "importStems"
    /\ history = <<1, 2>>
    /\ Len(stems[6]) = 7
    /\ result = 3
    /\ Len(ValidEntries(2)) = 4


----------------------------------------------------------------------------
(* WordEngine::importDawgFile                                               *)

\* The lexicon names the model imports under.
LexNames == {1, 2}

\* Bound on the number of DAWG files imported one after the other.
MaxDawgLoads == 2

\* What WordGraph::importDawgFile can leave in the graph: a file that was
\* read adds its words, forwards ones to the graph that the searches read;
\* a file that was rejected may or may not have been read before that.
graphsAfterDawg(g, f, reverse, ok) ==
    IF reverse THEN {g}
    ELSE IF ok THEN {g \cup FileWords(f)}
    ELSE {g, g \cup FileWords(f)}

\* "if (!ok) return false; if (!reverse) lexiconName = lexName;"
lexiconNameAfterDawg_AlsoReversed(name, lexName, reverse, ok) ==
    IF ok THEN lexName ELSE name

lexiconNameAfterDawg(name, lexName, reverse, ok) ==
    IF ok /\ ~reverse THEN lexName ELSE name

InitDawg ==
    /\ \E f \in {0, 2} :
        /\ graph = IF f = 0 THEN {} ELSE Loaded(f).graph
        /\ numAnagramsMap = IF f = 0 THEN <<>> ELSE Loaded(f).numAnagramsMap
        /\ lexiconName = f
    /\ dbOpen = FALSE
    /\ dbStore = 0
    /\ wordCache = EmptyCache
    /\ cacheSource = EmptyCache
    /\ op = "init"
    /\ callSpec = NoSpec
    /\ callCaps = FALSE
    /\ stages = <<>>
    /\ wgResult = <<>>
    /\ dbCandidates = NoList
    /\ dbResult = <<>>
    /\ result = <<>>
    /\ postWords = <<>>
    /\ postConds = <<>>
    /\ postTrace = NoTrace
    /\ definitions = NoDefinitions
    /\ link = NoLink
    /\ threads = NoThreads
    /\ stems = NoStems
    /\ stemAlphagrams = NoStems
    /\ quizDb = NoQuizDb
    /\ history = <<>>

\* WordEngine::importDawgFile: ok is what graph.importDawgFile returns; it
\* is false when the file cannot be read and when its checksum is not the
\* expected one.
ImportDawgFile(f, lexName, reverse, ok) ==
    /\ Len(history) < MaxDawgLoads
    /\ graph' \in graphsAfterDawg(graph, f, reverse, ok)
    /\ lexiconName' = lexiconNameAfterDawg(lexiconName, lexName, reverse, ok)
    /\ result' = ok
    /\ history' = Append(history, [file |-> f, lexName |-> lexName,
                                   reverse |-> reverse, ok |-> ok,
                                   before |-> lexiconName])
    /\ op' = "importDawgFile"
    /\ Quiet
    /\ UNCHANGED <<numAnagramsMap, dbOpen, dbStore, wordCache, cacheSource,
                   definitions, link, threads, stems, stemAlphagrams, quizDb>>

NextDawg ==
    \E f \in Files, lexName \in LexNames, reverse \in BOOLEAN, ok \in BOOLEAN :
        ImportDawgFile(f, lexName, reverse, ok)

SpecDawg == InitDawg /\ [][NextDawg]_vars

\* The arguments of the last call of importDawgFile.
LastDawg == history[Len(history)]

\* C22: importDawgFile returns what the graph import returns; the lexicon
\* name becomes the name given when the import succeeded and was not
\* reversed, and is what it was before in every other case.
C22_NameChangesOnForwardSuccessOnly ==
    op = "importDawgFile" =>
        /\ result = LastDawg.ok
        /\ (LastDawg.ok /\ ~LastDawg.reverse) => lexiconName = LastDawg.lexName
        /\ (~LastDawg.ok \/ LastDawg.reverse) => lexiconName = LastDawg.before

\* A reversed file was imported with success under another name than the
\* lexicon's, and the name stayed.
C22_Witness ==
    /\ op = "importDawgFile"
    /\ LastDawg.ok /\ LastDawg.reverse
    /\ LastDawg.lexName # LastDawg.before
    /\ LastDawg.before # 0
    /\ lexiconName = LastDawg.before


\* C23: whenever applyPostConditions reads keys[min] and keys[max], both
\* indices lie in [0, keys.size() - 1].
C23_KeysIndexedInBounds ==
    postTrace.indexed =>
        /\ InBounds(postTrace.keys, postTrace.workingMin)
        /\ InBounds(postTrace.keys, postTrace.workingMax)


\* C24: every returned word lies at a sorted position inside the range of
\* every strict LimitByProbabilityOrder condition, and when the working
\* minimum is greater than the working maximum nothing is returned.
C24_WindowIsIntersection ==
    (Applied /\ postTrace.indexed /\ postTrace.defined) =>
        /\ \A i \in StrictLimits, k \in 1..Len(result) :
              /\ postConds[i].minValue <= postTrace.min + k
              /\ postTrace.min + k <= postConds[i].maxValue
        /\ postTrace.workingMin > postTrace.workingMax => result = <<>>


----------------------------------------------------------------------------
(* The lookups of hook letters                                              *)

\* The spec getFrontHookLetters and getBackHookLetters search with when the
\* word has no valid WordInfo: "?" + word, or word + "?".
hookSpec(word, front) ==
    [conditions |->
        <<StringCondition("PatternMatch",
                          IF front THEN <<"?">> \o word ELSE word \o <<"?">>,
                          FALSE)>>,
     conjunction |-> TRUE]

\* The letters at the hooked end of the words found, lower case, each once,
\* in the order of a set<QChar>.
hookLetters(words, front) ==
    SelectSeq(LowerChars,
              LAMBDA c : \E i \in 1..Len(words) :
                  c = toLowerChar(words[i][IF front THEN 1 ELSE Len(words[i])]))

\* The call of search inside a hook lookup, after getWordInfo gave got.
hookSearch(run, got, source, front, open, k) ==
    [ret    |-> hookLetters(run.result, front),
     cache  |-> IF run.atEnd
                THEN cacheAfterSearch(got.cache, run.result, open, k)
                ELSE got.cache,
     source |-> IF run.atEnd
                THEN sourceAfterSearch(source, run.result, open, k)
                ELSE source]

\* WordEngine::getFrontHookLetters and getBackHookLetters after their call
\* of getWordInfo: what they return and what they leave in the cache.
hookLookup(word, front, got, source, g, open, k) ==
    IF isValid(got.info)
    THEN {[ret    |-> IF front THEN got.info.frontHooks ELSE got.info.backHooks,
           cache  |-> got.cache,
           source |-> source]}
    ELSE {hookSearch(run, got, source, front, open, k) :
             run \in {r \in searchRuns(hookSpec(word, front), TRUE, g, open, k) :
                         ~r.crashed}}

\* The words the model looks hook letters up for.
HookWords == {<<"A">>, <<"A", "B">>, <<"B", "A">>, <<"C">>}

InitLookup ==
    /\ graph = FileWords(1)
    /\ lexiconName = 1
    /\ numAnagramsMap = Loaded(1).numAnagramsMap
    /\ dbOpen = FALSE
    /\ dbStore = 0
    /\ wordCache = EmptyCache
    /\ cacheSource = EmptyCache
    /\ op = "init"
    /\ callSpec = NoSpec
    /\ callCaps = FALSE
    /\ stages = <<>>
    /\ wgResult = <<>>
    /\ dbCandidates = NoList
    /\ dbResult = <<>>
    /\ result = <<>>
    /\ postWords = <<>>
    /\ postConds = <<>>
    /\ postTrace = NoTrace
    /\ definitions = NoDefinitions
    /\ link = NoLink
    /\ threads = NoThreads
    /\ stems = NoStems
    /\ stemAlphagrams = NoStems
    /\ quizDb = NoQuizDb
    /\ history = <<>>

\* WordEngine::getFrontHookLetters (front) and getBackHookLetters
GetHookLetters(word, front) ==
    /\ LET got == getWordInfo(word, wordCache, dbOpen, dbStore)
           source == IF got.read
                     THEN [w \in DOMAIN got.cache |->
                              IF w = word THEN dbStore ELSE cacheSource[w]]
                     ELSE cacheSource
       IN  \E end \in hookLookup(word, front, got, source, graph, dbOpen, dbStore) :
              /\ result' = end.ret
              /\ wordCache' = end.cache
              /\ cacheSource' = end.source
    /\ op' = IF front THEN "getFrontHookLetters" ELSE "getBackHookLetters"
    /\ Quiet
    /\ UNCHANGED <<graph, lexiconName, numAnagramsMap, dbOpen, dbStore,
                   definitions, link, threads, stems, stemAlphagrams, quizDb,
                   history>>

NextLookup ==
    \/ \E k \in Stores, ok \in BOOLEAN : ConnectToDatabase(k, ok)
    \/ DisconnectFromDatabase
    \/ \E spec \in SearcherSpecs : Search(spec, FALSE)
    \/ \E word \in LookupWords \cup HookWords : GetWordInfo(word)
    \/ \E word \in HookWords, front \in BOOLEAN : GetHookLetters(word, front)

SpecLookup == InitLookup /\ [][NextLookup]_vars

LookupOps == {"getWordInfo", "getFrontHookLetters", "getBackHookLetters"}

\* C25: no attribute lookup removes an entry from the word-info cache or
\* changes one.
C25_LookupsKeepCachedEntries ==
    [][op' \in LookupOps =>
          \A w \in DOMAIN wordCache :
              w \in DOMAIN wordCache' /\ wordCache'[w] = wordCache[w]]_vars


----------------------------------------------------------------------------
(* QuizDatabase                                                             *)

\* quizDb holds the connection QuizDatabase::db and the two tables of its
\* file: isOpen is db->isOpen(), quiz and questions are the rows in the
\* order SELECT returns them.  A QSqlQuery on a connection that is closed
\* does not execute.

\* The quiz specs and the questions the model stores.
QuizSpecs ==
    {[lexicon |-> l, type |-> 0, questionIndex |-> i, numWords |-> 1,
      method |-> 0, quizOrder |-> 0] : l \in {1, 2}, i \in {0}}

QuizQuestions ==
    {[index |-> i, status |-> s, name |-> n] :
        i \in {0, 1}, s \in {0, 1}, n \in {<<"A", "B">>}}

\* A default-constructed QuizSpec and QuizQuestion.
DefaultQuizSpec ==
    [lexicon |-> 0, type |-> 0, questionIndex |-> 0, numWords |-> 0,
     method |-> 0, quizOrder |-> 0, numQuestions |-> 0]
InvalidQuestion == [index |-> -1, status |-> 0, name |-> <<>>]

\* QuizQuestion::isValid
isValidQuestion(q) == q.index >= 0

\* "!db->isOpen() && !db->open()": opens is what db->open() returns.
cannotOpen(db, opens) == ~db.isOpen /\ ~opens

\* QuizDatabase::getNumQuestions: the count, and the connection closed.
getNumQuestions(db, opens) ==
    IF cannotOpen(db, opens) THEN [count |-> 0, db |-> db]
    ELSE [count |-> Len(db.questions), db |-> [db EXCEPT !.isOpen = FALSE]]

\* QuizDatabase::getQuizSpec
getQuizSpec(db, opens) ==
    IF cannotOpen(db, opens) THEN [spec |-> DefaultQuizSpec, db |-> db]
    ELSE [spec |-> IF db.quiz = <<>> THEN DefaultQuizSpec
                   ELSE db.quiz[1] @@
                        [numQuestions |->
                            getNumQuestions([db EXCEPT !.isOpen = TRUE],
                                            opens).count],
          db |-> [db EXCEPT !.isOpen = FALSE]]

\* The six columns setQuizSpec compares and writes.
quizColumns(spec) ==
    [lexicon |-> spec.lexicon, type |-> spec.type,
     questionIndex |-> spec.questionIndex, numWords |-> spec.numWords,
     method |-> spec.method, quizOrder |-> spec.quizOrder]

\* "if (existingSpec.getNumQuestions())": the branch that updates.
quizDataExists(db, existingSpec) == existingSpec.numQuestions # 0

\* QuizDatabase::setQuizSpec: opens1 and opens2 are what its two calls of
\* db->open() return, execOk what query.exec() returns.
setQuizSpec(db, quizSpec, opens1, opens2, execOk) ==
    LET got == getQuizSpec(db, opens1)
        existingSpec == got.spec
        closed == [got.db EXCEPT !.isOpen = FALSE]
        opened == [got.db EXCEPT !.isOpen = TRUE]
    IN  IF cannotOpen(got.db, opens2) THEN [ret |-> FALSE, db |-> got.db]
        ELSE IF quizDataExists(got.db, existingSpec)
                /\ quizColumns(existingSpec) = quizSpec
        THEN [ret |-> TRUE, db |-> opened]
        ELSE IF ~execOk THEN [ret |-> FALSE, db |-> closed]
        ELSE IF quizDataExists(got.db, existingSpec)
        THEN [ret |-> TRUE,
              db  |-> [closed EXCEPT !.quiz =
                          [i \in 1..Len(closed.quiz) |-> quizSpec]]]
        ELSE [ret |-> TRUE,
              db  |-> [closed EXCEPT !.quiz = Append(closed.quiz, quizSpec)]]

\* QuizDatabase::getQuestion
getQuestion(db, index, opens) ==
    IF cannotOpen(db, opens) THEN [question |-> InvalidQuestion, db |-> db]
    ELSE LET rows == SelectSeq(db.questions, LAMBDA r : r.index = index)
         IN  [question |-> IF rows = <<>> THEN InvalidQuestion ELSE rows[1],
              db |-> [db EXCEPT !.isOpen = FALSE]]

\* QVariant of an int, of a QString, and an invalid one.
IntVariant(n) == [type |-> "int", int |-> n, string |-> <<>>]
StringVariant(s) == [type |-> "string", int |-> 0, string |-> s]
InvalidVariant == [type |-> "invalid", int |-> 0, string |-> <<>>]

\* The list params of setQuestion.
questionParams(index, question, existingQuestion) ==
    IF isValidQuestion(existingQuestion)
    THEN <<IntVariant(question.status), StringVariant(question.name),
           IntVariant(index)>>
    ELSE <<IntVariant(index), IntVariant(question.status),
           StringVariant(question.name)>>

\* The loop "iParam.next(); query.bindValue(bindNum++, iParam.next());"
\* over a list of three: the second value is bound first, then next() is
\* called at the end of the list, which is undefined; it aborts the call or
\* yields some value.
boundValues(params) ==
    {[crashed |-> TRUE, bound |-> <<params[2]>>]}
    \cup {[crashed |-> FALSE, bound |-> <<params[2], v>>] :
             v \in Range(params) \cup {InvalidVariant}}

\* QuizDatabase::setQuestion: getQuestion has closed the connection when
\* the statement is prepared and executed.
setQuestion(db, index, question, opens) ==
    IF cannotOpen(db, opens)
    THEN {[crashed |-> FALSE, ret |-> FALSE, db |-> db,
           params |-> <<>>, bound |-> <<>>]}
    ELSE LET got    == getQuestion([db EXCEPT !.isOpen = TRUE], index, opens)
             params == questionParams(index, question, got.question)
         IN  {[crashed |-> b.crashed, ret |-> FALSE, db |-> got.db,
               params |-> params, bound |-> b.bound] : b \in boundValues(params)}

\* Bound on the rows of the quiz table.
MaxQuizRows == 2

InitQuiz ==
    /\ graph = {}
    /\ lexiconName = 0
    /\ numAnagramsMap = <<>>
    /\ dbOpen = FALSE
    /\ dbStore = 0
    /\ wordCache = EmptyCache
    /\ cacheSource = EmptyCache
    /\ op = "init"
    /\ callSpec = NoSpec
    /\ callCaps = FALSE
    /\ stages = <<>>
    /\ wgResult = <<>>
    /\ dbCandidates = NoList
    /\ dbResult = <<>>
    /\ result = <<>>
    /\ postWords = <<>>
    /\ postConds = <<>>
    /\ postTrace = NoTrace
    /\ definitions = NoDefinitions
    /\ link = NoLink
    /\ threads = NoThreads
    /\ stems = NoStems
    /\ stemAlphagrams = NoStems
    /\ quizDb \in {[NoQuizDb EXCEPT !.questions = qs] :
                      qs \in {<<>>} \cup {<<q>> : q \in QuizQuestions}}
    /\ history = <<>>

QuizFrame ==
    /\ Quiet
    /\ UNCHANGED <<graph, lexiconName, numAnagramsMap, dbOpen, dbStore,
                   wordCache, cacheSource, definitions, link, stems,
                   stemAlphagrams, history>>

\* QuizDatabase::setQuizSpec
SetQuizSpec(quizSpec, opens1, opens2, execOk) ==
    /\ op # "crashed"
    /\ Len(quizDb.quiz) < MaxQuizRows
    /\ LET end == setQuizSpec(quizDb, quizSpec, opens1, opens2, execOk)
       IN  /\ quizDb' = end.db
           /\ result' = end.ret
    /\ threads' = [call |-> "setQuizSpec", quizSpec |-> quizSpec,
                   before |-> quizDb]
    /\ op' = "setQuizSpec"
    /\ QuizFrame

\* QuizDatabase::setQuestion
SetQuestion(index, question, opens) ==
    /\ op # "crashed"
    /\ \E end \in setQuestion(quizDb, index, question, opens) :
        /\ quizDb' = end.db
        /\ result' = end.ret
        /\ threads' = [call |-> "setQuestion", index |-> index,
                       question |-> question, params |-> end.params,
                       bound |-> end.bound]
        /\ op' = IF end.crashed THEN "crashed" ELSE "setQuestion"
    /\ QuizFrame

\* QuizDatabase::getQuestion
GetQuestion(index, opens) ==
    /\ op # "crashed"
    /\ LET end == getQuestion(quizDb, index, opens)
       IN  /\ quizDb' = end.db
           /\ result' = end.question
    /\ threads' = [call |-> "getQuestion", index |-> index]
    /\ op' = "getQuestion"
    /\ QuizFrame

NextQuiz ==
    \/ \E quizSpec \in QuizSpecs, opens1 \in BOOLEAN, opens2 \in BOOLEAN,
          execOk \in BOOLEAN : SetQuizSpec(quizSpec, opens1, opens2, execOk)
    \/ \E index \in {0, 1}, question \in QuizQuestions, opens \in BOOLEAN :
          SetQuestion(index, question, opens)
    \/ \E index \in {0, 1}, opens \in BOOLEAN : GetQuestion(index, opens)

SpecQuiz == InitQuiz /\ [][NextQuiz]_vars

\* C26: setQuestion binds its three parameters in order, and after it has
\* returned true the questions table gives the question back at its index.
C26_SetQuestionStores ==
    (op \in {"setQuestion", "crashed"} /\ threads.params # <<>>) =>
        /\ threads.bound = threads.params
        /\ result = TRUE =>
              LET got == getQuestion(quizDb, threads.index, TRUE).question
              IN  /\ isValidQuestion(got)
                  /\ got.index = threads.index
                  /\ got.status = threads.question.status
                  /\ got.name = threads.question.name

\* C27: the quiz table never holds more than one row.
C27_AtMostOneQuizRow == Len(quizDb.quiz) <= 1


----------------------------------------------------------------------------
(* isSetMember on the stem sets                                             *)

\* The words the model asks isSetMember about, in capitals as matchesConditions
\* passes them: every word of six to eight letters A, B, C in alphabetical
\* order, some of them backwards, and words of other letters.
SortedWords ==
    {w \in {Letters(a, b, c) : a \in 0..8, b \in 0..8, c \in 0..8} :
        Len(w) \in 6..8}

StemWords ==
    SortedWords
    \cup {Reversed(w) : w \in {v \in SortedWords : v[1] = "A" /\ v[Len(v)] = "C"
                                                  /\ v[2] = "B"}}
    \cup {<<"A", "D", "E", "A", "E", "A", "E">>,
          <<"A", "A", "A", "D", "E", "E", "E", "E">>,
          <<"H", "U", "N", "T", "E", "R", "S">>,
          <<"N", "O", "T", "I", "F", "I", "E", "D">>}

\* importStems of the files of a list one after the other; state holds
\* stems and stemAlphagrams.
RECURSIVE importStemFiles(_, _)
importStemFiles(files, state) ==
    IF files = <<>> THEN state
    ELSE LET end == StemLocals(Head(files))
         IN  importStemFiles(Tail(files),
                [stems |-> mergeStems(state.stems, end.length, end.words),
                 stemAlphagrams |->
                     mergeStemAlphagrams(state.stemAlphagrams, end.length,
                                         end.alphagrams)])

\* The engine after it has imported some of the stem files.
InitSets ==
    /\ graph = {}
    /\ lexiconName = 0
    /\ numAnagramsMap = <<>>
    /\ dbOpen = FALSE
    /\ dbStore = 0
    /\ wordCache = EmptyCache
    /\ cacheSource = EmptyCache
    /\ op = "init"
    /\ callSpec = NoSpec
    /\ callCaps = FALSE
    /\ stages = <<>>
    /\ wgResult = <<>>
    /\ dbCandidates = NoList
    /\ dbResult = <<>>
    /\ result = <<>>
    /\ postWords = <<>>
    /\ postConds = <<>>
    /\ postTrace = NoTrace
    /\ definitions = NoDefinitions
    /\ link = NoLink
    /\ threads = NoThreads
    /\ \E F \in SUBSET StemFiles :
        LET files  == SelectSeq(<<1, 2, 3, 4>>, LAMBDA f : f \in F)
            loaded == importStemFiles(files, [stems |-> NoStems,
                                              stemAlphagrams |-> NoStems])
        IN  /\ stems = loaded.stems
            /\ stemAlphagrams = loaded.stemAlphagrams
            /\ history = files
    /\ quizDb = NoQuizDb

\* WordEngine::isSetMember called with a stem set.
IsSetMember(word, ss) ==
    /\ op = "init"
    /\ result' = isStemSetMember(word, ss, stemAlphagrams)
    /\ threads' = [call |-> "isSetMember", word |-> word, ss |-> ss]
    /\ op' = "isSetMember"
    /\ Quiet
    /\ UNCHANGED <<graph, lexiconName, numAnagramsMap, dbOpen, dbStore,
                   wordCache, cacheSource, definitions, link, stems,
                   stemAlphagrams, quizDb, history>>

NextSets == \E word \in StemWords, ss \in StemSets : IsSetMember(word, ss)

SpecSets == InitSets /\ [][NextSets]_vars

\* The alphagrams stored for the six-letter stems.
SixLetterStems ==
    IF 6 \in DOMAIN stemAlphagrams THEN stemAlphagrams[6] ELSE {}

\* Every letter of a is in w at least as often as in a.
SubMultiset(a, w) == \A c \in Range(a) : CountChar(a, c) <= CountChar(w, c)

\* Word w has n letters and holds the letters of some six-letter stem.
StemPlus(w, n) ==
    Len(w) = n /\ \E a \in SixLetterStems : SubMultiset(a, w)

Asked(ss) == op = "isSetMember" /\ threads.ss = ss

\* C28: a word is a type one seven exactly when it has seven letters and
\* holds the letters of a six-letter stem, and a type one eight exactly when
\* it has eight letters and holds the letters of a six-letter stem.
C28_TypeOneIsStemPlusLetters ==
    /\ Asked("Type I Sevens") => (result = StemPlus(threads.word, 7))
    /\ Asked("Type I Eights") => (result = StemPlus(threads.word, 8))

\* An eight-letter word with two letters more than a stem, neither at the
\* end of its alphagram, is found to be a type one eight.
C28_Witness ==
    /\ Asked("Type I Eights")
    /\ result = TRUE
    /\ threads.word = Letters(3, 3, 2)
    /\ SixLetterStems = {Letters(2, 2, 2), Letters(3, 3, 0),
                         <<"E", "H", "N", "R", "T", "U">>}

\* The sets the stem types are made of.
SevensSets == {"Type I Sevens", "Type II Sevens", "Type III Sevens"}
EightsSets == {"Type I Eights", "Type II Eights", "Type III Eights"}

\* C29: a word that is in one of the stem-type groups is in no other of
\* them.
C29_StemTypesExclusive ==
    (op = "isSetMember" /\ result = TRUE
        /\ threads.ss \in SevensSets \cup EightsSets) =>
        \A other \in (SevensSets \cup EightsSets) \ {threads.ss} :
            ~isStemSetMember(threads.word, other, stemAlphagrams)

\* A word that would be a type two seven by its letters is a type one seven
\* because of a stem, and so is not a type two seven.
C29_Witness ==
    /\ Asked("Type I Sevens")
    /\ result = TRUE
    /\ typeTwoOk(getAlphagram(threads.word), 0, 0)


----------------------------------------------------------------------------
(* WordEngine::getNumAnagrams                                               *)

\* WordEngine::getNumAnagrams: the count of the word information when
\* getWordInfo has a valid one, the count of numAnagramsMap otherwise.
getNumAnagrams(word, cache, open, k, map) ==
    LET info  == getWordInfo(word, cache, open, k).info
        alpha == getAlphagram(word)
    IN  IF isValid(info) THEN info.numAnagrams
        ELSE IF alpha \in DOMAIN map THEN map[alpha] ELSE 0

\* The words getNumAnagrams is called with.
AnagramWords == LookupWords \cup {<<"B", "A">>, <<"C", "A">>}

GetNumAnagrams(word) ==
    /\ op # "crashed"
    /\ LET got == getWordInfo(word, wordCache, dbOpen, dbStore)
       IN  /\ wordCache' = got.cache
           /\ cacheSource' =
                 IF got.read
                 THEN [w \in DOMAIN got.cache |->
                          IF w = word THEN dbStore ELSE cacheSource[w]]
                 ELSE cacheSource
    /\ result' = getNumAnagrams(word, wordCache, dbOpen, dbStore,
                                numAnagramsMap)
    /\ threads' = [call |-> "getNumAnagrams", word |-> word]
    /\ op' = "getNumAnagrams"
    /\ Quiet
    /\ UNCHANGED <<graph, lexiconName, numAnagramsMap, dbOpen, dbStore,
                   definitions, link, stems, stemAlphagrams, quizDb,
                   history>>

NextAnagrams ==
    \/ \E f \in Files : ImportTextFile(f)
    \/ \E k \in Stores, ok \in BOOLEAN : ConnectToDatabase(k, ok)
    \/ DisconnectFromDatabase
    \/ \E word \in LookupWords : GetWordInfo(word)
    \/ \E word \in AnagramWords : GetNumAnagrams(word)

SpecAnagrams == Init /\ [][NextAnagrams]_vars

\* The loaded words that share an alphagram.
LoadedAnagrams(alpha) == {w \in graph : getAlphagram(w) = alpha}

\* numAnagramsMap counts the distinct loaded words of every alphagram.
MapCountsLoadedWords ==
    /\ \A alpha \in DOMAIN numAnagramsMap :
          numAnagramsMap[alpha] = Cardinality(LoadedAnagrams(alpha))
    /\ \A w \in graph : getAlphagram(w) \in DOMAIN numAnagramsMap

\* importTextFile returns the number of the lines it did not skip.
ImportCountsLines ==
    op = "importTextFile" =>
        result = Len(SelectSeq(FileLines(lexiconName), LAMBDA l : l # <<>>))

\* C30: numAnagramsMap holds for every alphagram the number of distinct
\* loaded words, getNumAnagrams with no database connected returns the
\* number of distinct loaded words that share the alphagram of its word, and
\* importTextFile returns the number of lines it did not skip.
C30_AnagramCountsAreLoadedWords ==
    /\ MapCountsLoadedWords
    /\ ImportCountsLines
    /\ (op = "getNumAnagrams" /\ ~dbOpen) =>
          result = Cardinality(LoadedAnagrams(getAlphagram(threads.word)))

====
